---- MODULE Spec2Model ----
(***************************************************************************)
(* Tile-geometry engine of the SCMI AWIPS writer                           *)
(* (src/polar2grid/awips/scmi_backend.py): NumberedTileGenerator,          *)
(* LetteredTileGenerator, the tile iteration of __call__ and the part of   *)
(* Backend.create_output_from_scene that drives them.                      *)
(*                                                                         *)
(* Conventions.  Arrays are TLA+ sequences; a Python index k is the        *)
(* sequence index k+1.  Coordinates are integers: the unit is chosen so    *)
(* that half a pixel (cell_width/2) is a whole number, which makes the     *)
(* float arithmetic of the source exact.  A data pixel is identified by    *)
(* its <<row, col>> in the product array; its physical value is not        *)
(* modelled, only where it came from and whether it is masked.             *)
(***************************************************************************)
EXTENDS Integers, Sequences, FiniteSets, TLC

\* ---------------------------------------------------------------- bounds
MaxHeight == 2
MaxWidth == 5
MaxPixels == 5
MaxTileCount == 4

\* ------------------------------------------------------- arithmetic helpers
Abs(a) == IF a < 0 THEN -a ELSE a
Min(a, b) == IF a < b THEN a ELSE b
Max(a, b) == IF a > b THEN a ELSE b
\* np.ceil(a / float(b)) and np.floor(a / float(b)) for b > 0
CeilDiv(a, b) == -((-a) \div b)
FloorDiv(a, b) == a \div b

\* Python's None
None == <<>>

\* a Python slice(start, stop)
Slice(a, b) == [start |-> a, stop |-> b]

\* The indices (Python, 0-based) selected by slice s in an axis of length n:
\* negative bounds count from the end, and both are clipped to 0..n.
SliceBound(v, n) == IF v < 0 THEN Max(n + v, 0) ELSE Min(v, n)
SliceStart(s, n) == SliceBound(s.start, n)
SliceLen(s, n) == Max(SliceBound(s.stop, n) - SliceBound(s.start, n), 0)

\* ------------------------------------------------------- grid definition
\* GridDefinition.get_xy_arrays: pixel-centre coordinates, first row/column
\* at the origin, one cell further per index (cell_height is negative).
XArray(gd, width) == [j \in 1..width |-> gd.origin_x + (j - 1) * gd.cell_width]
YArray(gd, height) == [i \in 1..height |-> gd.origin_y + (i - 1) * gd.cell_height]

\* ndarray.min() and .max(), by halves so that arrays of 2**15 elements
\* stay within reach
RECURSIVE MinOver(_, _, _), MaxOver(_, _, _)
MinOver(s, lo, hi) ==
    IF lo = hi THEN s[lo]
    ELSE Min(MinOver(s, lo, (lo + hi) \div 2), MinOver(s, (lo + hi) \div 2 + 1, hi))
MaxOver(s, lo, hi) ==
    IF lo = hi THEN s[lo]
    ELSE Max(MaxOver(s, lo, (lo + hi) \div 2), MaxOver(s, (lo + hi) \div 2 + 1, hi))
SeqMin(s) == MinOver(s, 1, Len(s))
SeqMax(s) == MaxOver(s, 1, Len(s))

\* ------------------------------------------------------- identifiers
Digits == <<"0", "1", "2", "3", "4", "5", "6", "7", "8", "9">>
RECURSIVE DecimalDigits(_)
DecimalDigits(n) == IF n < 10 THEN <<Digits[n + 1]>>
                    ELSE Append(DecimalDigits(n \div 10), Digits[(n % 10) + 1])
RECURSIVE ZeroPad(_, _)
ZeroPad(s, w) == IF Len(s) >= w THEN s ELSE ZeroPad(<<"0">> \o s, w)
\* "{:0wd}".format(n) for n >= 0: at least w digits, zero padded
FormatInt(n, w) == ZeroPad(DecimalDigits(n), w)

\* ------------------------------------------------- masked arrays (numpy.ma)
\* The value np.nan that __call__ fills the tile buffer with.
NaN == <<-1, -1>>

\* A pixel of a masked array: where its value comes from (a pixel <<r, c>> of
\* the product array, or NaN) and its mask bit (TRUE is masked/invalid).
Pixel(v, m) == [src |-> v, mask |-> m]

\* The product array handed to the tile generator:
\* np.ma.masked_array(data, mask=mask) of shape (height, width).
DataPixel(mask, r, c) == Pixel(<<r, c>>, mask[<<r, c>>])

\* numpy broadcasting of a source axis of length s to a target axis of length d
Broadcasts(s, d) == s = d \/ s = 1

\* tmp_tile[tile_slices] = data[data_slices] can be carried out
CanSetItem(ts, tile_slices, shape, data_slices) ==
    /\ Broadcasts(SliceLen(data_slices[1], shape[1]), SliceLen(tile_slices[1], ts[1]))
    /\ Broadcasts(SliceLen(data_slices[2], shape[2]), SliceLen(tile_slices[2], ts[2]))

\* tmp_tile after tmp_tile[tile_slices] = data[data_slices]: the pixels of the
\* tile slice take the value and the mask of the source, all others keep
\* what they held.
SetItem(tmp, ts, tile_slices, mask, shape, data_slices) ==
    LET dr0 == SliceStart(tile_slices[1], ts[1])
        dc0 == SliceStart(tile_slices[2], ts[2])
        dr  == SliceLen(tile_slices[1], ts[1])
        dc  == SliceLen(tile_slices[2], ts[2])
        sr0 == SliceStart(data_slices[1], shape[1])
        sc0 == SliceStart(data_slices[2], shape[2])
        sr  == SliceLen(data_slices[1], shape[1])
        sc  == SliceLen(data_slices[2], shape[2])
    IN [p \in DOMAIN tmp |->
          IF /\ p[1] >= dr0 /\ p[1] < dr0 + dr
             /\ p[2] >= dc0 /\ p[2] < dc0 + dc
          THEN DataPixel(mask,
                         sr0 + (IF sr = dr THEN p[1] - dr0 ELSE 0),
                         sc0 + (IF sc = dc THEN p[2] - dc0 ELSE 0))
          ELSE tmp[p]]

\* np.ma.zeros(ts); tmp_tile[:] = fill_value: every pixel NaN, none masked
NewTile(ts) == [p \in (0..(ts[1] - 1)) \X (0..(ts[2] - 1)) |-> Pixel(NaN, FALSE)]

\* tmp_tile.mask.all()
MaskAll(tmp) == \A p \in DOMAIN tmp : tmp[p].mask

\* ------------------------------------------------- NumberedTileGenerator
\* 2**15, the number of index values of AWIPS's 16-bit coordinate variables
MaxIndexValues == 32768

Failed(msg) == [ok |-> FALSE, err |-> msg]

\* tile shape and tile count with the count looked at first
NumberedShapeCountByCount(rows, cols, tile_shape, tile_count) ==
    IF tile_count # None
    THEN [ok |-> TRUE,
          tile_shape |-> <<CeilDiv(rows, tile_count[1]), CeilDiv(cols, tile_count[2])>>,
          tile_count |-> tile_count]
    ELSE IF tile_shape # None
    THEN LET ts == <<Min(tile_shape[1], rows), Min(tile_shape[2], cols)>>
         IN [ok |-> TRUE, tile_shape |-> ts,
             tile_count |-> <<CeilDiv(rows, ts[1]), CeilDiv(cols, ts[2])>>]
    ELSE [ok |-> FALSE, err |-> "Either 'tile_count' or 'tile_shape' must be provided"]

\* _get_tile_properties: tile shape and tile count from whichever is given
NumberedShapeCount(rows, cols, tile_shape, tile_count) ==
    IF tile_shape # None
    THEN LET ts == <<Min(tile_shape[1], rows), Min(tile_shape[2], cols)>>
         IN [ok |-> TRUE, tile_shape |-> ts,
             tile_count |-> <<CeilDiv(rows, ts[1]), CeilDiv(cols, ts[2])>>]
    ELSE IF tile_count # None
    THEN [ok |-> TRUE,
          tile_shape |-> <<CeilDiv(rows, tile_count[1]), CeilDiv(cols, tile_count[2])>>,
          tile_count |-> tile_count]
    ELSE Failed("Either 'tile_count' or 'tile_shape' must be provided")

\* _get_xy_scaling_parameters: (mx, bx, my, by) of the whole image
NumberedScaling(gd, x, y) ==
    [mx |-> gd.cell_width, bx |-> SeqMin(x), my |-> gd.cell_height, by |-> SeqMin(y)]

\* __init__, _get_tile_properties and _get_xy_arrays
NumberedTileGenerator(gd, tile_shape, tile_count) ==
    LET sc == NumberedShapeCount(gd.height, gd.width, tile_shape, tile_count)
    IN IF ~sc.ok THEN sc
       ELSE LET ts == sc.tile_shape
                tc == sc.tile_count
                \* X and Y of the imaginary grid that reaches the edge of all tiles
                x == XArray(gd, ts[2] * tc[2])
                y == YArray(gd, ts[1] * tc[1])
                sp == NumberedScaling(gd, x, y)
            IN IF Len(x) > MaxIndexValues
               THEN Failed("X variable too large for AWIPS-version of 16-bit integer space")
               ELSE IF Len(y) > MaxIndexValues
               THEN Failed("Y variable too large for AWIPS-version of 16-bit integer space")
               ELSE [ok |-> TRUE, kind |-> "numbered",
                     rows |-> gd.height, cols |-> gd.width,
                     tile_shape |-> ts, tile_count |-> tc,
                     total_tiles |-> tc[1] * tc[2],
                     image_shape |-> <<ts[1] * tc[1], ts[2] * tc[2]>>,
                     x |-> x, y |-> y,
                     mx |-> sp.mx, bx |-> sp.bx, my |-> sp.my, by |-> sp.by]

\* a tile number that counts the rows with the number of tile rows
NumberedTileNumberByRows(tc, ty, tx) == ty * tc[1] + tx + 1
\* _tile_number
NumberedTileNumber(tc, ty, tx) == ty * tc[2] + tx + 1

\* _tile_identifier: "T{:03d}"
NumberedTileIdentifier(tc, ty, tx) == <<"T">> \o FormatInt(NumberedTileNumber(tc, ty, tx), 3)

\* x[slice]: the elements of a sequence a Python slice selects
SliceSeq(s, sl) ==
    [k \in 1..SliceLen(sl, Len(s)) |-> s[SliceStart(sl, Len(s)) + k]]

\* a tile_info whose data slices take in the first row and column of the
\* next tile
NumberedTileInfoOverlapping(g, ty, tx) ==
    LET ts == g.tile_shape
        max_row_idx == Min((ty + 1) * ts[1], g.rows) - (ty * ts[1])
        max_col_idx == Min((tx + 1) * ts[2], g.cols) - (tx * ts[2])
        data_slices == <<Slice(ty * ts[1], (ty + 1) * ts[1] + 1),
                         Slice(tx * ts[2], (tx + 1) * ts[2] + 1)>>
    IN [tile_row_offset |-> ty * ts[1],
        tile_column_offset |-> tx * ts[2],
        tile_id |-> NumberedTileIdentifier(g.tile_count, ty, tx),
        tmp_x |-> SliceSeq(g.x, data_slices[2]),
        tmp_y |-> SliceSeq(g.y, data_slices[1]),
        tile_slices |-> <<Slice(0, max_row_idx), Slice(0, max_col_idx)>>,
        data_slices |-> data_slices,
        ty |-> ty, tx |-> tx]

\* the tile_info tuple of _generate_tile_info for tile (ty, tx)
NumberedTileInfo(g, ty, tx) ==
    LET ts == g.tile_shape
        max_row_idx == Min((ty + 1) * ts[1], g.rows) - (ty * ts[1])
        max_col_idx == Min((tx + 1) * ts[2], g.cols) - (tx * ts[2])
        data_slices == <<Slice(ty * ts[1], (ty + 1) * ts[1]),
                         Slice(tx * ts[2], (tx + 1) * ts[2])>>
    IN [tile_row_offset |-> ty * ts[1],
        tile_column_offset |-> tx * ts[2],
        tile_id |-> NumberedTileIdentifier(g.tile_count, ty, tx),
        tmp_x |-> SliceSeq(g.x, data_slices[2]),
        tmp_y |-> SliceSeq(g.y, data_slices[1]),
        tile_slices |-> <<Slice(0, max_row_idx), Slice(0, max_col_idx)>>,
        data_slices |-> data_slices,
        ty |-> ty, tx |-> tx]

\* for ty in range(a, b + 1): for tx in range(c, d + 1): the cells, in order
CellRange(r0, r1, c0, c1) ==
    LET nr == Max(r1 - r0 + 1, 0)
        nc == Max(c1 - c0 + 1, 0)
    IN [k \in 1..(nr * nc) |-> <<r0 + ((k - 1) \div nc), c0 + ((k - 1) % nc)>>]


\* ------------------------------------------------- LetteredTileGenerator
\* string.ascii_uppercase
AsciiUppercase == <<"A", "B", "C", "D", "E", "F", "G", "H", "I", "J", "K", "L", "M",
                    "N", "O", "P", "Q", "R", "S", "T", "U", "V", "W", "X", "Y", "Z">>

\* a remainder that takes the sign of a, as C's fmod does
PyModTruncating(a, m) == IF a < 0 THEN -((-a) % m) ELSE a % m
\* a % m of Python for m > 0: the result is in [0, m)
PyMod(a, m) == a % m

\* The corners of the lettered grid after the adjustment to the data
\* (lines 307-320).  ll_xy and ur_xy are the sector's corners as projected by
\* the grid's projection p (an external library); x and y are the
\* pixel-centre coordinates of the data.
ShiftedCorners(ll_xy, ur_xy, x, y, cw, ch) ==
    LET ul0 == <<ll_xy[1], ur_xy[2]>>
        shift_x == PyMod(ul0[1] - (SeqMin(x) - cw \div 2), cw)
        shift_y == PyMod(ul0[2] - (SeqMax(y) + ch \div 2), ch)
        ul == <<ul0[1] - shift_x, ul0[2] - shift_y>>
    IN [shift_x |-> shift_x, shift_y |-> shift_y,
        ul_xy |-> ul,
        ll_xy |-> <<ul[1], ll_xy[2] - shift_y>>,
        ur_xy |-> <<ur_xy[1] - shift_x, ul[2]>>]

\* more letters than the alphabet has, counted with one more to spare
TooManyCellsAbove27(max_cols, max_rows, st) ==
    (max_cols * max_rows) \div (st[1] * st[2]) > 27
\* the test of lines 347-348 (integer division: Python 2)
TooManyCells(max_cols, max_rows, st) ==
    (max_cols * max_rows) \div (st[1] * st[2]) > 26

\* _get_tile_properties of the lettered generator, and __init__
LetteredTileGenerator(gd, sector, subtiles) ==
    LET st == IF subtiles = None THEN <<2, 2>> ELSE subtiles
        cs == sector.cell_size
        x == XArray(gd, gd.width)
        y == YArray(gd, gd.height)
        cw == Abs(gd.cell_width)
        ch == Abs(gd.cell_height)
        c == ShiftedCorners(sector.ll_xy, sector.ur_xy, x, y, cw, ch)
        ul_xy == c.ul_xy
        fcs_y0 == CeilDiv(cs[1], st[1])
        fcs_x0 == CeilDiv(cs[2], st[2])
        \* whole tiles, and no partial alpha-tiles
        max_cols == CeilDiv(CeilDiv(c.ur_xy[1] - ul_xy[1], fcs_x0), st[2]) * st[2]
        max_rows == CeilDiv(CeilDiv(ul_xy[2] - c.ll_xy[2], fcs_y0), st[1]) * st[1]
        num_pixels_x == FloorDiv(fcs_x0, cw)
        num_pixels_y == FloorDiv(fcs_y0, ch)
        fcs_x == num_pixels_x * cw
        fcs_y == num_pixels_y * ch
        min_col == Max(FloorDiv(SeqMin(x) - ul_xy[1], fcs_x), 0)
        max_col == Min(FloorDiv(SeqMax(x) - ul_xy[1], fcs_x), max_cols - 1)
        min_row == Max(FloorDiv(ul_xy[2] - SeqMax(y), fcs_y), 0)
        max_row == Min(FloorDiv(ul_xy[2] - SeqMin(y), fcs_y), max_rows - 1)
        num_cols == max_col - min_col + 1
        num_rows == max_row - min_row + 1
    IN IF TooManyCells(max_cols, max_rows, st)
       THEN Failed("Too many lettered grid cells (sector cell size too small). Max 26")
       ELSE [ok |-> TRUE, kind |-> "lettered",
             rows |-> gd.height, cols |-> gd.width,
             num_subtiles |-> st,
             tile_shape |-> <<num_pixels_y, num_pixels_x>>,
             total_tile_count |-> <<max_rows, max_cols>>,
             tile_count |-> <<num_rows, num_cols>>,
             total_tiles |-> num_rows * num_cols,
             image_shape |-> <<num_pixels_y * num_rows, num_pixels_x * num_cols>>,
             min_col |-> min_col, max_col |-> max_col,
             min_row |-> min_row, max_row |-> max_row,
             ul_xy |-> ul_xy,
             cw |-> cw, ch |-> ch,
             x |-> x, y |-> y,
             mx |-> cw, bx |-> ul_xy[1], my |-> -ch, by |-> ul_xy[2]]

\* an alpha index that does not count the letters of the rows above
LetteredAlphaNumNoStride(st, ttc, ty, tx) == (ty \div st[1]) + (tx \div st[2])
\* _tile_identifier of the lettered generator: the index into
\* string.ascii_uppercase and the sub-tile number (integer division: Python 2)
LetteredAlphaNum(st, ttc, ty, tx) == (ty \div st[1]) * (ttc[2] \div st[2]) + (tx \div st[2])
LetteredTileNum(st, ty, tx) == (ty % st[1]) * st[2] + (tx % st[2]) + 1
\* "T{}{:02d}".format(alpha, tile_num)
LetteredTileIdentifier(st, ttc, ty, tx) ==
    <<"T", AsciiUppercase[LetteredAlphaNum(st, ttc, ty, tx) + 1]>>
        \o FormatInt(LetteredTileNum(st, ty, tx), 2)

\* tile edges that reach one pixel into the next tile
TileBoundsWide(ul_xy, ts, cw, ch, gy, gx) ==
    LET x_left == ul_xy[1] + gx * ts[2] * cw
        y_top == ul_xy[2] - gy * ts[1] * ch
    IN [x_left |-> x_left, x_right |-> x_left + (ts[2] + 1) * cw,
        y_top |-> y_top, y_bot |-> y_top - (ts[1] + 1) * ch]

\* the outer edges of lettered tile (gy, gx) (lines 396-399)
TileBounds(ul_xy, ts, cw, ch, gy, gx) ==
    LET x_left == ul_xy[1] + gx * ts[2] * cw
        y_top == ul_xy[2] - gy * ts[1] * ch
    IN [x_left |-> x_left, x_right |-> x_left + ts[2] * cw,
        y_top |-> y_top, y_bot |-> y_top - ts[1] * ch]

\* np.nonzero(cond)[0]: the Python indices, ascending, at which the boolean
\* array cond is True
NonZero(cond) ==
    LET Holds(i) == cond[i + 1]
    IN SelectSeq([k \in 1..Len(cond) |-> k - 1], Holds)

\* ndarray.any() of an array of integers: some element is not zero
NpAny(idx) == \E k \in 1..Len(idx) : idx[k] # 0

\* np.arange(start, stop, step) for step > 0 (Up) and for a step of -step (Down)
ArangeUp(start, stop, step) ==
    [k \in 1..Max(CeilDiv(stop - start, step), 0) |-> start + (k - 1) * step]
ArangeDown(start, stop, step) ==
    [k \in 1..Max(CeilDiv(start - stop, step), 0) |-> start - (k - 1) * step]

\* np.isclose(a, b): |a - b| <= atol + rtol * |b| with rtol 1e-5, atol 1e-8
IsClose(a, b) == Abs(a - b) * 100000000 <= 1 + 1000 * Abs(b)

\* np.nonzero(np.isclose(s, v))[0]: the indices of s close to v
CloseTo(s, v) == NonZero([k \in 1..Len(s) |-> IsClose(s[k], v)])

\* tile slices that leave out the last index of the data
LetteredTileSlicesExclusive(y_idx_min, y_idx_max, x_idx_min, x_idx_max) ==
    <<Slice(y_idx_min, y_idx_max), Slice(x_idx_min, x_idx_max)>>

\* tile_slices (lines 421-422) from the first and last tile-local indices of
\* the data on each axis
LetteredTileSlices(y_idx_min, y_idx_max, x_idx_min, x_idx_max) ==
    <<Slice(y_idx_min, y_idx_max + 1), Slice(x_idx_min, x_idx_max + 1)>>

\* One pass of the loop body of the lettered _generate_tile_info for the cell
\* (gy, gx): "skip" (continue), "raise" (an IndexError of [0][0] or of the
\* letter lookup) or "info" with the tile_info tuple.
LetteredTileInfo(g, gy, gx) ==
    LET ts == g.tile_shape
        cw == g.cw
        ch == g.ch
        b == TileBounds(g.ul_xy, ts, cw, ch, gy, gx)
        InX(v) == v >= b.x_left /\ v < b.x_right
        InY(v) == v > b.y_bot /\ v <= b.y_top
        x_mask == NonZero([k \in 1..Len(g.x) |-> InX(g.x[k])])
        y_mask == NonZero([k \in 1..Len(g.y) |-> InY(g.y[k])])
    IN IF LetteredAlphaNum(g.num_subtiles, g.total_tile_count, gy, gx) >= Len(AsciiUppercase)
       THEN [status |-> "raise"]
       ELSE IF ~NpAny(x_mask) \/ ~NpAny(y_mask)
       THEN [status |-> "skip"]
       ELSE
       LET x_slice == Slice(x_mask[1], x_mask[Len(x_mask)] + 1)
           y_slice == Slice(y_mask[1], y_mask[Len(y_mask)] + 1)
           tmp_x == ArangeUp(b.x_left + cw \div 2, b.x_right, cw)
           tmp_y == ArangeDown(b.y_top - ch \div 2, b.y_bot, ch)
           x_min == CloseTo(tmp_x, g.x[x_slice.start + 1])
           x_max == CloseTo(tmp_x, g.x[x_slice.stop])
           y_min == CloseTo(tmp_y, g.y[y_slice.start + 1])
           y_max == CloseTo(tmp_y, g.y[y_slice.stop])
       IN IF x_min = <<>> \/ x_max = <<>> \/ y_min = <<>> \/ y_max = <<>>
          THEN [status |-> "raise"]
          ELSE [status |-> "info",
                info |-> [tile_row_offset |-> gy * ts[1],
                          tile_column_offset |-> gx * ts[2],
                          tile_id |-> LetteredTileIdentifier(g.num_subtiles,
                                                            g.total_tile_count, gy, gx),
                          tmp_x |-> tmp_x,
                          tmp_y |-> tmp_y,
                          tile_slices |-> LetteredTileSlices(y_min[1], y_max[1],
                                                             x_min[1], x_max[1]),
                          data_slices |-> <<y_slice, x_slice>>,
                          ty |-> gy, tx |-> gx]]


\* ------------------------------------------------- the inputs of the model
\* Grid definitions: height x width pixels of 2 x 2 units (cell_height is
\* negative: Y decreases down the rows), the first pixel centre at the origin.
GridShapes == {sh \in (1..MaxHeight) \X (1..MaxWidth) : sh[1] * sh[2] <= MaxPixels}
GridDef(name, sh, ox, oy) ==
    [grid_name |-> name, height |-> sh[1], width |-> sh[2],
     cell_width |-> 2, cell_height |-> -2, origin_x |-> ox, origin_y |-> oy,
     proj |-> "lcc"]
NumberedGrids == {GridDef("grid", sh, 1, 7) : sh \in GridShapes}
\* Origins on and off the pixel lattice of the sector corner, left of, on and
\* inside the sector.
OriginsX == {-3, 1, 2, 3}
OriginsY == {5, 6, 7}
LetteredShapes == {sh \in GridShapes : sh[1] <= 2 /\ sh[2] <= 3} \cup {<<2, 3>>}
LetteredGrids == {GridDef("grid", sh, ox, oy) :
                    sh \in LetteredShapes, ox \in OriginsX, oy \in OriginsY}

\* Sectors of the configuration file, their corners already projected:
\* ll_xy = p(*ll_extent), ur_xy = p(*ur_extent); cell_size is (size, size).
Sectors == {[ll_xy |-> <<0, 0>>, ur_xy |-> <<16, 8>>, cell_size |-> <<8, 8>>],
            [ll_xy |-> <<0, 0>>, ur_xy |-> <<8, 8>>, cell_size |-> <<4, 4>>],
            [ll_xy |-> <<0, 0>>, ur_xy |-> <<108, 4>>, cell_size |-> <<4, 4>>]}
SubtileChoices == {None, <<1, 1>>, <<1, 2>>}

\* tile_size and tile_count as create_output_from_scene receives them: a
\* tile count alone, a tile size beside the default count (1, 1), neither.
TileCounts == (1..MaxTileCount) \X (1..MaxTileCount)
TileSizes == GridShapes
NumberedArgs ==
    {[lettered |-> FALSE, sector |-> None, num_subtiles |-> None,
      tile_size |-> None, tile_count |-> tc] : tc \in TileCounts \cup {None}}
    \cup {[lettered |-> FALSE, sector |-> None, num_subtiles |-> None,
           tile_size |-> sz, tile_count |-> <<1, 1>>] : sz \in TileSizes}
LetteredArgs ==
    {[lettered |-> TRUE, sector |-> sec, num_subtiles |-> st,
      tile_size |-> None, tile_count |-> <<1, 1>>] :
        sec \in Sectors, st \in SubtileChoices}

\* the products of the scene (ds_list), all on the one grid
Products == {"p1", "p2"}

\* every mask of a product of the grid's shape
Masks(g) == [(0..(g.height - 1)) \X (0..(g.width - 1)) -> BOOLEAN]

\* ------------------------------------------------- state
VARIABLES
    args,        \* keyword arguments of create_output_from_scene
    gd,          \* the grid definition of the scene's products
    gen,         \* tile_gen: the tile generator of the grid (None before it is built)
    tile_cache,  \* tile_gen._tile_cache
    data,        \* the mask of the product being tiled
    tmp_tile,    \* the tile buffer of the running __call__
    pc,          \* "start", "ready" (between products), "iter", "raised", "done"
    source,      \* what the running __call__ iterates: "cache" or "generator"
    pos,         \* items of it consumed so far
    emitted,     \* what the running __call__ has yielded: (tile_info, tile) pairs
    handed,      \* the scaling parameters handed to create_tile_output so far
    nproducts,   \* products of ds_list begun
    runs,        \* the tile generators of earlier runs with the same arguments
    backend,     \* the Backend's exit_on_error, keep_intermediate, overwrite_existing
    files,       \* the files of the output directory: name -> content
    output_filenames,  \* the list create_output_from_scene returns
    attempts,    \* the calls of create_tile_output made, with their outcome
    gridded_product,  \* the product being scaled: bit_depth, valid_min, valid_max, ...
    pkwargs,     \* fills, factor and offset _calc_factor_offset returned for it
    image_data,  \* the attributes apply_data_attributes set on the file's variable
    image_pixel, \* a pixel set_image_data wrote: its mask, value and stored code
    output_pattern, \* the output_pattern of create_output_from_scene: its fields
    glue         \* the run of the glue script's main: where it is, its status

\* the files and their writer; Spec, SpecSector and SpecSize follow the tile
\* generators only and leave them alone, SpecWrite follows them
\* the scaling of a product, which only SpecScale follows
svars == <<gridded_product, pkwargs, image_data, image_pixel>>
wvars == <<backend, files, output_filenames, attempts, gridded_product, pkwargs, image_data,
          image_pixel, output_pattern, glue>>

vars == <<args, gd, gen, tile_cache, data, tmp_tile, pc, source, pos, emitted,
          handed, nproducts, runs, backend, files, output_filenames, attempts,
          gridded_product, pkwargs, image_data, image_pixel, output_pattern, glue>>

\* no writer is followed
NoWriter ==
    /\ backend = None
    /\ files = <<>>
    /\ output_filenames = <<>>
    /\ attempts = <<>>
    /\ gridded_product = None
    /\ pkwargs = None
    /\ image_data = None
    /\ image_pixel = None
    /\ output_pattern = None
    /\ glue = None

\* a sector lookup that fails for an unknown sector whatever the mode
GetSectorInfoStrict(a) ==
    IF a.sector = None
    THEN Failed("Unknown sector")
    ELSE [ok |-> TRUE, sector_info |-> a.sector]
\* _get_sector_info: a.sector is what the configuration holds for sector_id,
\* None when it has no such section (NoSectionError)
GetSectorInfo(a) ==
    IF a.sector = None
    THEN IF a.lettered THEN Failed("Unknown sector")
         ELSE [ok |-> TRUE, sector_info |-> None]
    ELSE [ok |-> TRUE, sector_info |-> a.sector]

\* _get_tile_generator
GetTileGeneratorResult(a, g) ==
    LET si == GetSectorInfo(a)
    IN IF ~si.ok THEN si
       ELSE IF a.lettered
       THEN LetteredTileGenerator(g, si.sector_info, a.num_subtiles)
       ELSE NumberedTileGenerator(g, a.tile_size, a.tile_count)

\* the cells the loops of _generate_tile_info visit, in order
Cells(g) ==
    IF g.kind = "numbered"
    THEN CellRange(0, g.tile_count[1] - 1, 0, g.tile_count[2] - 1)
    ELSE CellRange(g.min_row, g.max_row, g.min_col, g.max_col)

\* one pass of the loop body of _generate_tile_info
GenerateTileInfo(g, cell) ==
    IF g.kind = "numbered"
    THEN [status |-> "info", info |-> NumberedTileInfo(g, cell[1], cell[2])]
    ELSE LetteredTileInfo(g, cell[1], cell[2])

\* np.around(n / d): to the nearest integer, halves to the even one
RoundHalfEven(n, d) ==
    LET nn == IF d < 0 THEN -n ELSE n
        dd == Abs(d)
        q == nn \div dd
        r == nn % dd
    IN IF 2 * r < dd THEN q
       ELSE IF 2 * r > dd THEN q + 1
       ELSE IF q % 2 = 0 THEN q ELSE q + 1

\* set_fgf: the coordinate variables get scale_factor m and add_offset b and
\* are then assigned the coordinates, which the NetCDF library packs into
\* the 16-bit integers round((v - b) / m); a reader unpacks i * m + b.
StoredIndex(v, m, b) == RoundHalfEven(v - b, m)
Unpacked(i, m, b) == i * m + b

\* scaling parameters taken from the tile's own coordinates
WriterScalingPerTile(g, info) == [grid_name |-> g.grid_name,
                                  mx |-> g.mx, bx |-> info.tmp_x[1],
                                  my |-> g.my, by |-> info.tmp_y[1]]

\* the (mx, bx, my, by) create_output_from_scene passes to create_tile_output
\* with a tile (lines 863-864)
WriterScaling(g, info) == [grid_name |-> g.grid_name,
                           mx |-> g.mx, bx |-> g.bx, my |-> g.my, by |-> g.by]

Init ==
    /\ args \in NumberedArgs \cup LetteredArgs
    /\ gd \in (IF args.lettered THEN LetteredGrids ELSE NumberedGrids)
    \* at most one row of tiles wholly below the image
    /\ (~args.lettered /\ args.tile_count # None) => args.tile_count[1] <= gd.height + 1
    /\ gen = None
    /\ tile_cache = <<>>
    /\ data = None
    /\ tmp_tile = None
    /\ pc = "start"
    /\ source = "none"
    /\ pos = 0
    /\ emitted = <<>>
    /\ handed = {}
    /\ nproducts = 0
    /\ runs = <<>>
    /\ NoWriter

\* tile_gen = self._get_tile_generator(...): the generator, or its error
GetTileGenerator ==
    /\ pc = "start"
    /\ LET g == GetTileGeneratorResult(args, gd)
       IN /\ gen' = (IF g.ok THEN [g EXCEPT !.ok = TRUE] @@ [grid_name |-> gd.grid_name] ELSE g)
          /\ pc' = IF g.ok THEN "ready" ELSE "raised"
    /\ UNCHANGED wvars
    /\ UNCHANGED <<runs, args, gd, tile_cache, data, tmp_tile, source, pos, emitted,
                   handed, nproducts>>

\* for gridded_product in ds_list: ... tile_gen(data, fill_value): the new
\* product's masked array, and __call__ up to its loop
BeginProduct ==
    /\ pc = "ready"
    /\ nproducts < Cardinality(Products)
    /\ data' \in Masks(gd)
    /\ tmp_tile' = NewTile(gen.tile_shape)
    /\ source' = IF tile_cache # <<>> THEN "cache" ELSE "generator"
    /\ pos' = 0
    /\ emitted' = <<>>
    /\ nproducts' = nproducts + 1
    /\ pc' = "iter"
    /\ UNCHANGED wvars
    /\ UNCHANGED <<runs, args, gd, gen, tile_cache, handed>>

\* what the iteration of __call__ gets next
Exhausted == IF source = "cache" THEN pos >= Len(tile_cache) ELSE pos >= Len(Cells(gen))
Current == IF source = "cache"
           THEN [status |-> "info", info |-> tile_cache[pos + 1]]
           ELSE GenerateTileInfo(gen, Cells(gen)[pos + 1])
\* the cache after _generate_tile_info has produced info
CacheWith(info) == IF source = "generator" THEN Append(tile_cache, info) ELSE tile_cache
Shape == <<gd.height, gd.width>>

\* the generator's "continue": no data in this lettered tile
GeneratorSkip ==
    /\ pc = "iter" /\ ~Exhausted
    /\ Current.status = "skip"
    /\ pos' = pos + 1
    /\ UNCHANGED wvars
    /\ UNCHANGED <<runs, args, gd, gen, tile_cache, data, tmp_tile, pc, source, emitted,
                   handed, nproducts>>

\* the loop body of __call__ for a tile that is yielded, and the call of
\* create_tile_output it leads to
TileYield ==
    /\ pc = "iter" /\ ~Exhausted
    /\ Current.status = "info"
    /\ LET info == Current.info
           new == SetItem(tmp_tile, gen.tile_shape, info.tile_slices,
                          data, Shape, info.data_slices)
       IN /\ CanSetItem(gen.tile_shape, info.tile_slices, Shape, info.data_slices)
          /\ ~MaskAll(new)
          /\ tmp_tile' = new
          /\ tile_cache' = CacheWith(info)
          /\ emitted' = Append(emitted, [info |-> info, tile |-> new])
          /\ handed' = handed \cup {WriterScaling(gen, info)}
    /\ pos' = pos + 1
    /\ UNCHANGED wvars
    /\ UNCHANGED <<runs, args, gd, gen, data, pc, source, nproducts>>

\* the loop body of __call__ for a tile whose buffer is all masked
TileSkipMasked ==
    /\ pc = "iter" /\ ~Exhausted
    /\ Current.status = "info"
    /\ LET info == Current.info
           new == SetItem(tmp_tile, gen.tile_shape, info.tile_slices,
                          data, Shape, info.data_slices)
       IN /\ CanSetItem(gen.tile_shape, info.tile_slices, Shape, info.data_slices)
          /\ MaskAll(new)
          /\ tmp_tile' = new
          /\ tile_cache' = CacheWith(info)
    /\ pos' = pos + 1
    /\ UNCHANGED wvars
    /\ UNCHANGED <<runs, args, gd, gen, data, pc, source, emitted, handed, nproducts>>

\* the iteration raises: an IndexError of the generator, or the ValueError of
\* an assignment whose shapes do not fit.  The for statement of
\* create_output_from_scene is outside its try block: the error leaves it.
Raises(cur) ==
    \/ cur.status = "raise"
    \/ /\ cur.status = "info"
       /\ ~CanSetItem(gen.tile_shape, cur.info.tile_slices, Shape, cur.info.data_slices)
TileRaise ==
    /\ pc = "iter" /\ ~Exhausted
    /\ Raises(Current)
    /\ tile_cache' = IF Current.status = "info" THEN CacheWith(Current.info) ELSE tile_cache
    /\ pc' = "raised"
    /\ UNCHANGED wvars
    /\ UNCHANGED <<runs, args, gd, gen, data, tmp_tile, source, pos, emitted, handed,
                   nproducts>>

\* the iteration is over and its generator, buffer and data are dropped: on
\* to the next product
EndCall ==
    /\ pc = "iter" /\ Exhausted
    /\ pc' = "ready"
    /\ data' = None
    /\ tmp_tile' = None
    /\ source' = "none"
    /\ pos' = 0
    /\ emitted' = <<>>
    /\ UNCHANGED wvars
    /\ UNCHANGED <<runs, args, gd, gen, tile_cache, handed, nproducts>>

\* ds_list is exhausted: return output_filenames
EndScene ==
    /\ pc = "ready" /\ nproducts >= 1
    /\ pc' = "done"
    /\ UNCHANGED wvars
    /\ UNCHANGED <<runs, args, gd, gen, tile_cache, data, tmp_tile, source, pos, emitted,
                   handed, nproducts>>

Next ==
    \/ GetTileGenerator
    \/ BeginProduct
    \/ GeneratorSkip
    \/ TileYield
    \/ TileSkipMasked
    \/ TileRaise
    \/ EndCall
    \/ EndScene

Spec == Init /\ [][Next]_vars


\* ------------------------------------------------- two runs over one sector
\* The same lettered arguments (sector, sub-tiles) used for the grids of two
\* runs whose extents overlap: the first run's generator is kept in runs.
SectorShapes == {sh \in LetteredShapes : sh[2] >= 2}
\* ... and also grids whose first row straddles the sector's upper edge
SectorOriginsY == OriginsY \cup {8}
SectorGrids == {GridDef("grid", sh, ox, oy) :
                  sh \in SectorShapes, ox \in OriginsX, oy \in SectorOriginsY}

\* the extents of two grids (outer pixel edges) overlap
Overlapping(g1, g2) ==
    LET left(g) == g.origin_x - 1
        right(g) == g.origin_x + (g.width - 1) * g.cell_width + 1
        top(g) == g.origin_y + 1
        bottom(g) == g.origin_y + (g.height - 1) * g.cell_height - 1
    IN /\ left(g1) < right(g2) /\ left(g2) < right(g1)
       /\ bottom(g1) < top(g2) /\ bottom(g2) < top(g1)

InitSector ==
    /\ args \in LetteredArgs
    /\ gd \in SectorGrids
    /\ gen = None
    /\ tile_cache = <<>>
    /\ data = None
    /\ tmp_tile = None
    /\ pc = "start"
    /\ source = "none"
    /\ pos = 0
    /\ emitted = <<>>
    /\ handed = {}
    /\ nproducts = 0
    /\ runs = <<>>
    /\ NoWriter

\* a second run: another grid, the same sector and sub-tile configuration
SecondRun ==
    /\ pc = "ready" /\ runs = <<>>
    /\ runs' = <<gen>>
    /\ \E g \in SectorGrids : g # gd /\ Overlapping(g, gd) /\ gd' = g
    /\ gen' = None
    /\ pc' = "start"
    /\ UNCHANGED wvars
    /\ UNCHANGED <<args, tile_cache, data, tmp_tile, source, pos, emitted, handed,
                   nproducts>>

NextSector == GetTileGenerator \/ SecondRun

SpecSector == InitSector /\ [][NextSector]_vars

\* ------------------------------------------------- images at the index limit
\* Tile counts that make the image of a numbered generator one index short
\* of, equal to and one index over 2**15 along either axis
SizeCounts == {<<1, n>> : n \in (MaxIndexValues - 1)..(MaxIndexValues + 1)}
              \cup {<<n, 1>> : n \in (MaxIndexValues - 1)..(MaxIndexValues + 1)}
SizeNumberedArgs ==
    {[lettered |-> FALSE, sector |-> None, num_subtiles |-> None,
      tile_size |-> None, tile_count |-> tc] : tc \in SizeCounts}
SizeNumberedGrids == {GridDef("grid", sh, 1, 7) : sh \in {<<1, 1>>, <<2, 2>>}}
\* A sector of two cells of 2**15 pixels each way (four of 2**14 as sub-tiles)
SizeSector == [ll_xy |-> <<0, 0>>, ur_xy |-> <<4 * MaxIndexValues, 8>>,
               cell_size |-> <<2 * MaxIndexValues, 2 * MaxIndexValues>>]
SizeLetteredArgs ==
    {[lettered |-> TRUE, sector |-> SizeSector, num_subtiles |-> st,
      tile_size |-> None, tile_count |-> <<1, 1>>] : st \in SubtileChoices}
\* grids inside the first cell, ending at and straddling the edge between
\* the two cells
SizeOriginsX == {1, 2 * MaxIndexValues - 3, 2 * MaxIndexValues - 1}
SizeLetteredGrids == {GridDef("grid", sh, ox, oy) :
                        sh \in LetteredShapes, ox \in SizeOriginsX, oy \in OriginsY}

InitSize ==
    /\ args \in SizeNumberedArgs \cup SizeLetteredArgs
    /\ gd \in (IF args.lettered THEN SizeLetteredGrids ELSE SizeNumberedGrids)
    /\ gen = None
    /\ tile_cache = <<>>
    /\ data = None
    /\ tmp_tile = None
    /\ pc = "start"
    /\ source = "none"
    /\ pos = 0
    /\ emitted = <<>>
    /\ handed = {}
    /\ nproducts = 0
    /\ runs = <<>>
    /\ NoWriter

NextSize == GetTileGenerator

SpecSize == InitSize /\ [][NextSize]_vars

\* ------------------------------------------------- the tile writer
\* the projections set_projection_attrs has a branch for, and one it has none for
SupportedProjections == {"geos", "lcc", "stere", "merc"}
Projections == SupportedProjections \cup {"eqc"}
Backends == [exit_on_error : BOOLEAN, keep_intermediate : BOOLEAN,
             overwrite_existing : BOOLEAN]
\* ds_list in its order
ProductAt(n) == IF n = 1 THEN "p1" ELSE "p2"
\* An output pattern is followed as the set of its fields that tell the
\* files of a scene apart; DEFAULT_OUTPUT_PATTERN has both
DefaultOutputPattern == {"product_name", "tile_id"}
\* output_filename of create_tile_output: the pattern formatted by
\* create_output_filename when it has a "{", else the pattern itself
OutputFilename(product, tile_id) ==
    IF output_pattern # {}
    THEN <<IF "product_name" \in output_pattern THEN product ELSE "",
           IF "tile_id" \in output_pattern THEN tile_id ELSE <<>>>>
    ELSE <<"", <<>>>>
\* the content of a file: whose tile it holds and how far it was written
\* ("old": it was there before the call)
FileOf(product, tile_id, state) == [product |-> product, tile_id |-> tile_id, state |-> state]
\* fs with the file name holding content
WithFile(fs, name, content) ==
    [n \in DOMAIN fs \cup {name} |-> IF n = name THEN content ELSE fs[n]]
\* where the underlying library fails: nowhere, in Dataset(filename, 'w')
\* before the file exists, or at a later step
Faults == {"none", "create", "fill"}

\* an error handler that removes nothing
CleanupNothing(fs, created_files) == fs
\* the except clause of create_tile_output (lines 960-966)
Cleanup(fs, created_files) ==
    IF backend.keep_intermediate THEN fs
    ELSE [n \in DOMAIN fs \ {created_files[k] : k \in DOMAIN created_files} |-> fs[n]]

\* the existing file entered in created_files before it is tested
ExistsErrorAfterAppend(fs, name) ==
    [ok |-> FALSE, outcome |-> "exists", created |-> FALSE, files |-> Cleanup(fs, <<name>>)]
\* lines 926-929: the file exists and may not be overwritten; created_files
\* is still empty
ExistsError(fs, name) ==
    [ok |-> FALSE, outcome |-> "exists", created |-> FALSE, files |-> Cleanup(fs, <<>>)]

\* create_tile_output: the files it leaves and what it returns or raises
CreateTileOutput(fs, product, tile_id, fault) ==
    LET name == OutputFilename(product, tile_id)
        opened == WithFile(fs, name, FileOf(product, tile_id, "partial"))
        closed == WithFile(fs, name, FileOf(product, tile_id, "complete"))
    IN IF name \in DOMAIN fs /\ ~backend.overwrite_existing
       THEN ExistsError(fs, name)
       ELSE IF fault = "create"
       THEN [ok |-> FALSE, outcome |-> "failed", created |-> FALSE,
             files |-> Cleanup(fs, <<name>>)]
       ELSE IF gd.proj \notin SupportedProjections \/ fault = "fill"
       THEN [ok |-> FALSE, outcome |-> "failed", created |-> TRUE,
             files |-> Cleanup(opened, <<name>>)]
       ELSE [ok |-> TRUE, outcome |-> "written", created |-> TRUE, files |-> closed]

\* an error handler that always re-raises
AfterErrorRaise == "raised"
\* the except clause of create_output_from_scene (lines 871-876)
AfterError == IF backend.exit_on_error THEN "raised" ELSE "iter"

\* the loop body of __call__ for a tile that is yielded and the loop body of
\* create_output_from_scene for it: create_tile_output and its error handler
TileOutput ==
    /\ pc = "iter" /\ ~Exhausted
    /\ Current.status = "info"
    /\ LET info == Current.info
           new == SetItem(tmp_tile, gen.tile_shape, info.tile_slices,
                          data, Shape, info.data_slices)
       IN /\ CanSetItem(gen.tile_shape, info.tile_slices, Shape, info.data_slices)
          /\ ~MaskAll(new)
          /\ tmp_tile' = new
          /\ tile_cache' = CacheWith(info)
          /\ emitted' = Append(emitted, [info |-> info, tile |-> new])
          /\ handed' = handed \cup {WriterScaling(gen, info)}
          /\ \E fault \in Faults :
               LET product == ProductAt(nproducts)
                   r == CreateTileOutput(files, product, info.tile_id, fault)
               IN /\ files' = r.files
                  /\ output_filenames' =
                        IF r.ok THEN Append(output_filenames,
                                            OutputFilename(product, info.tile_id))
                        ELSE output_filenames
                  /\ attempts' = Append(attempts,
                        [product |-> product, tile_id |-> info.tile_id,
                         name |-> OutputFilename(product, info.tile_id),
                         outcome |-> r.outcome, created |-> r.created])
                  /\ pc' = IF r.ok THEN "iter" ELSE AfterError
    /\ pos' = pos + 1
    /\ UNCHANGED <<runs, args, gd, gen, data, source, nproducts, backend, output_pattern,
                   glue>>
    /\ UNCHANGED svars

\* Scenes of two products on a grid of 1 x 2 pixels: two numbered tiles of
\* one pixel, or lettered tiles for a grid left of the sector or inside it
WriteArgs ==
    {[lettered |-> FALSE, sector |-> None, num_subtiles |-> None,
      tile_size |-> None, tile_count |-> <<1, 2>>]}
    \cup {[lettered |-> TRUE, sector |-> sec, num_subtiles |-> <<1, 2>>,
           tile_size |-> None, tile_count |-> <<1, 1>>] :
             sec \in {[ll_xy |-> <<0, 0>>, ur_xy |-> <<16, 8>>, cell_size |-> <<8, 8>>]}}
WriteGrids(a) ==
    {[GridDef("grid", <<1, 2>>, ox, 7) EXCEPT !.proj = p] :
        ox \in (IF a.lettered THEN {-3, 1} ELSE {1}), p \in Projections}
\* the output directory before the call: empty, or holding the file of the
\* first product's first tile
PreExisting ==
    {<<>>,
     WithFile(<<>>, OutputFilename("p1", NumberedTileIdentifier(<<1, 2>>, 0, 0)),
              FileOf("none", <<>>, "old"))}

InitWrite ==
    /\ args \in WriteArgs
    /\ gd \in WriteGrids(args)
    /\ backend \in Backends
    /\ output_pattern = DefaultOutputPattern
    /\ glue = None
    /\ files \in PreExisting
    /\ output_filenames = <<>>
    /\ attempts = <<>>
    /\ gridded_product = None
    /\ pkwargs = None
    /\ image_data = None
    /\ image_pixel = None
    /\ gen = None
    /\ tile_cache = <<>>
    /\ data = None
    /\ tmp_tile = None
    /\ pc = "start"
    /\ source = "none"
    /\ pos = 0
    /\ emitted = <<>>
    /\ handed = {}
    /\ nproducts = 0
    /\ runs = <<>>

NextWrite ==
    \/ GetTileGenerator
    \/ BeginProduct
    \/ GeneratorSkip
    \/ TileOutput
    \/ TileSkipMasked
    \/ EndCall
    \/ EndScene

SpecWrite == InitWrite /\ [][NextWrite]_vars

\* ------------------------------------------------- output patterns
\* The scenes of two products of the tile writer written with any output
\* pattern: with both fields, without the tile, without the product, or
\* without a field at all
OutputPatterns == SUBSET DefaultOutputPattern

InitPattern ==
    /\ args \in WriteArgs
    /\ gd \in {g \in WriteGrids(args) : g.proj = "lcc"}
    /\ backend \in Backends
    /\ output_pattern \in OutputPatterns
    /\ glue = None
    /\ files = <<>>
    /\ output_filenames = <<>>
    /\ attempts = <<>>
    /\ gridded_product = None
    /\ pkwargs = None
    /\ image_data = None
    /\ image_pixel = None
    /\ gen = None
    /\ tile_cache = <<>>
    /\ data = None
    /\ tmp_tile = None
    /\ pc = "start"
    /\ source = "none"
    /\ pos = 0
    /\ emitted = <<>>
    /\ handed = {}
    /\ nproducts = 0
    /\ runs = <<>>

SpecPattern == InitPattern /\ [][NextWrite]_vars

\* ------------------------------------------------- building the tile scheme
\* Arguments for which _get_tile_generator succeeds (those of WriteArgs, and
\* numbered tiles with a sector the configuration knows) and for which it
\* raises: neither tile size nor tile count, an image of 2**15 + 1 columns,
\* a lettered grid for an unknown sector or for a sector of 27 cells
BuildSector == [ll_xy |-> <<0, 0>>, ur_xy |-> <<16, 8>>, cell_size |-> <<8, 8>>]
WideSector == [ll_xy |-> <<0, 0>>, ur_xy |-> <<108, 4>>, cell_size |-> <<4, 4>>]
BuildArgs ==
    WriteArgs
    \cup {[lettered |-> FALSE, sector |-> BuildSector, num_subtiles |-> None,
           tile_size |-> None, tile_count |-> <<1, 2>>],
          [lettered |-> FALSE, sector |-> None, num_subtiles |-> None,
           tile_size |-> None, tile_count |-> None],
          [lettered |-> FALSE, sector |-> None, num_subtiles |-> None,
           tile_size |-> None, tile_count |-> <<1, MaxIndexValues + 1>>],
          [lettered |-> TRUE, sector |-> None, num_subtiles |-> <<1, 2>>,
           tile_size |-> None, tile_count |-> <<1, 1>>],
          [lettered |-> TRUE, sector |-> WideSector, num_subtiles |-> <<1, 2>>,
           tile_size |-> None, tile_count |-> <<1, 1>>]}
BuildGrids(a) == {g \in WriteGrids(a) : g.proj = "lcc"}

InitBuild ==
    /\ args \in BuildArgs
    /\ gd \in BuildGrids(args)
    /\ backend \in {b \in Backends : ~b.keep_intermediate /\ ~b.overwrite_existing}
    /\ output_pattern = DefaultOutputPattern
    /\ glue = None
    /\ files = <<>>
    /\ output_filenames = <<>>
    /\ attempts = <<>>
    /\ gridded_product = None
    /\ pkwargs = None
    /\ image_data = None
    /\ image_pixel = None
    /\ gen = None
    /\ tile_cache = <<>>
    /\ data = None
    /\ tmp_tile = None
    /\ pc = "start"
    /\ source = "none"
    /\ pos = 0
    /\ emitted = <<>>
    /\ handed = {}
    /\ nproducts = 0
    /\ runs = <<>>

SpecBuild == InitBuild /\ [][NextWrite]_vars

\* ------------------------------------------------- the scaling of a product
\* Floats are followed as exact fractions in lowest terms: what rounding
\* does to factor and offset is not followed.
RECURSIVE GCD(_, _)
GCD(a, b) == IF b = 0 THEN a ELSE GCD(b, a % b)
Frac(n, d) == LET g == GCD(Abs(n), d) IN [num |-> n \div g, den |-> d \div g]
FracAdd(p, q) == Frac(p.num * q.den + q.num * p.den, p.den * q.den)
FracMul(p, q) == Frac(p.num * q.num, p.den * q.den)

AWIPS_USES_NEGATIVES == FALSE
\* numpy dtypes: np.int16 and np.uint16
Int16 == [itemsize |-> 2, kind |-> "i"]
Uint16 == [itemsize |-> 2, kind |-> "u"]
\* the bits of the file's type that hold data, and whether it is taken as
\* unsigned (lines 721-725 and 572-577)
FileBitDepth(dtype) ==
    IF ~AWIPS_USES_NEGATIVES /\ dtype.kind # "u"
    THEN dtype.itemsize * 8 - 1
    ELSE dtype.itemsize * 8
IsUnsigned(dtype) == dtype.kind = "u" \/ ~AWIPS_USES_NEGATIVES

\* one encoding kept for the fill value at every bit depth
NumFillsAlways(bitdepth, file_bitdepth) == 1
\* num_fills (default 1) after lines 729-734, and as lines 579-584 set it
NumFills(bitdepth, file_bitdepth) == IF bitdepth >= file_bitdepth THEN 1 ELSE 0

\* _calc_factor_offset with min and max given and num_fills left at its default
CalcFactorOffset(dtype, bitdepth, min, max, flag_meanings) ==
    LET file_bitdepth == FileBitDepth(dtype)
        is_unsigned == IsUnsigned(dtype)
        num_fills == NumFills(bitdepth, file_bitdepth)
        bd == IF bitdepth >= file_bitdepth THEN file_bitdepth ELSE bitdepth
        fills == IF ~is_unsigned THEN <<2^(file_bitdepth - 1) - 1>>
                 ELSE <<2^file_bitdepth - 1>>
        mx == IF flag_meanings THEN Frac(1, 2)
              ELSE Frac(max - min, 2^bd - 1 - num_fills)
        bx == IF flag_meanings THEN Frac(0, 1)
              ELSE IF ~is_unsigned
                   THEN FracAdd(Frac(min, 1), FracMul(Frac(2^(bd - 1), 1), mx))
                   ELSE Frac(min, 1)
    IN [fills |-> fills, factor |-> mx, offset |-> bx]

\* apply_data_attributes as create_variables calls it: valid_min and
\* valid_max are None; the attributes it computes from the bit depth
ApplyDataAttributes(dtype, bitdepth) ==
    LET file_bitdepth == FileBitDepth(dtype)
        is_unsigned == IsUnsigned(dtype)
        num_fills == NumFills(bitdepth, file_bitdepth)
        bd == IF bitdepth >= file_bitdepth THEN file_bitdepth ELSE bitdepth
    IN IF ~is_unsigned
       THEN [valid_min |-> -(2^(bd - 1)), valid_max |-> 2^(bd - 1) - 1 - num_fills]
       ELSE [valid_min |-> 0, valid_max |-> 2^bd - 1 - num_fills]

\* the largest distance of a product's valid_min from 0 and of its valid_max
\* from its valid_min
MaxRange == 4
BitDepths == {2, 8, 12, 15, 16, 17}
\* the products scaled: create_output_from_scene passes np.uint16,
\* _calc_factor_offset alone defaults to np.int16
ScaleProducts ==
    {[dtype |-> dt, bit_depth |-> b, valid_min |-> lo, valid_max |-> lo + d,
      flag_meanings |-> f] :
        dt \in {Int16, Uint16}, b \in BitDepths, lo \in {-MaxRange, 0, MaxRange},
        d \in 0..MaxRange, f \in BOOLEAN}

\* create_output_from_scene, lines 843-852
ScaleProduct ==
    /\ gridded_product # None /\ pkwargs = None
    /\ pkwargs' = CalcFactorOffset(gridded_product.dtype, gridded_product.bit_depth,
                                   gridded_product.valid_min, gridded_product.valid_max,
                                   gridded_product.flag_meanings)
    /\ UNCHANGED <<gridded_product, image_data, image_pixel>>
    /\ UNCHANGED <<args, gd, gen, tile_cache, data, tmp_tile, pc, source, pos, emitted,
                   handed, nproducts, runs, backend, files, output_filenames, attempts,
                   output_pattern, glue>>

\* create_tile_output's nc.create_variables(bit_depth, fills[0], factor,
\* offset): the image variable is of type 'u2'
CreateVariables ==
    /\ pkwargs # None /\ image_data = None
    /\ gridded_product.dtype = Uint16
    /\ image_data' = ApplyDataAttributes(Uint16, gridded_product.bit_depth)
    /\ UNCHANGED <<gridded_product, pkwargs, image_pixel>>
    /\ UNCHANGED <<args, gd, gen, tile_cache, data, tmp_tile, pc, source, pos, emitted,
                   handed, nproducts, runs, backend, files, output_filenames, attempts,
                   output_pattern, glue>>

InitScale ==
    /\ gridded_product \in ScaleProducts
    /\ pkwargs = None
    /\ image_data = None
    /\ image_pixel = None
    /\ args = None
    /\ gd = None
    /\ gen = None
    /\ tile_cache = <<>>
    /\ data = None
    /\ tmp_tile = None
    /\ pc = "start"
    /\ source = "none"
    /\ pos = 0
    /\ emitted = <<>>
    /\ handed = {}
    /\ nproducts = 0
    /\ runs = <<>>
    /\ backend = None
    /\ files = <<>>
    /\ output_filenames = <<>>
    /\ attempts = <<>>
    /\ output_pattern = None
    /\ glue = None

\* the values of the image variable's type 'u2'
Uint16Values == 2^16
\* a * b modulo 2**16 for a, b in 0..2**16 - 1
MulMod(a, b) ==
    ((((a \div 256) * b) % Uint16Values) * 256 + (a % 256) * b) % Uint16Values

\* What the NetCDF library's auto-scaling makes of the value v assigned to a
\* variable with scale_factor and add_offset: around((v - add_offset) /
\* scale_factor), as whether it is finite, whether it is one of the
\* variable's values, and its low 16 bits
Pack(v, scale_factor, add_offset) ==
    LET a == v * add_offset.den - add_offset.num
        d == add_offset.den * scale_factor.num
        fd == scale_factor.den
    IN IF d = 0 THEN [finite |-> FALSE, fits |-> FALSE, low |-> 0]
       ELSE IF a < 0
       THEN [finite |-> TRUE, fits |-> RoundHalfEven(a * fd, d) = 0,
             low |-> RoundHalfEven(a * fd, d) % Uint16Values]
       ELSE LET a1 == a \div d
                a0 == a % d
                whole == (a0 * fd) \div d
                r == (a0 * fd) % d
                floor_low == (MulMod(a1 % Uint16Values, fd % Uint16Values) + whole)
                                % Uint16Values
                up == IF 2 * r > d \/ (2 * r = d /\ floor_low % 2 = 1) THEN 1 ELSE 0
            IN [finite |-> TRUE,
                fits |-> /\ a1 <= (Uint16Values - 1) \div fd
                         /\ a1 * fd + whole + up <= Uint16Values - 1,
                low |-> (floor_low + up) % Uint16Values]

\* The conversion of the packed value to the variable's unsigned 16-bit
\* type: the value itself when it is one; otherwise C leaves the result
\* undefined, and builds wrap it, zero it or saturate it
CastUint16(p) ==
    IF ~p.finite THEN {0, Uint16Values - 1}
    ELSE IF p.fits THEN {p.low}
    ELSE {p.low, 0, Uint16Values - 1}

\* a pixel of the tile after np.clip(tmp_tile, valid_min, valid_max): masked,
\* or a value of the valid range
ClippedPixels ==
    {[mask |-> TRUE, value |-> 0]}
    \cup {[mask |-> FALSE, value |-> v] :
             v \in gridded_product.valid_min..gridded_product.valid_max}

\* set_image_data(tmp_tile, fills[0]) for one pixel: data.filled(fill_value)
\* assigned to the auto-scaled image variable
SetImageData ==
    /\ image_data # None /\ image_pixel = None
    /\ \E px \in ClippedPixels :
         LET filled == IF px.mask THEN pkwargs.fills[1] ELSE px.value
         IN \E code \in CastUint16(Pack(filled, pkwargs.factor, pkwargs.offset)) :
               image_pixel' = [mask |-> px.mask, value |-> px.value, code |-> code]
    /\ UNCHANGED <<gridded_product, pkwargs, image_data>>
    /\ UNCHANGED <<args, gd, gen, tile_cache, data, tmp_tile, pc, source, pos, emitted,
                   handed, nproducts, runs, backend, files, output_filenames, attempts,
                   output_pattern, glue>>

NextScale == ScaleProduct \/ CreateVariables \/ SetImageData

SpecScale == InitScale /\ [][NextScale]_vars


\* ------------------------------------------------- calls that are abandoned
\* The consumer of tile_gen(data) gets control at each yield of __call__ and
\* may stop there (a break, or an error it lets through as line 873 does):
\* the suspended iteration is dropped with what it has cached so far, and
\* the scheme is called again for the next product.
JustYielded ==
    /\ pos >= 1 /\ emitted # <<>>
    /\ emitted[Len(emitted)].info =
         (IF source = "cache" THEN tile_cache[pos]
          ELSE GenerateTileInfo(gen, Cells(gen)[pos]).info)
Abandon ==
    /\ pc = "iter" /\ ~Exhausted
    /\ JustYielded
    /\ pc' = "ready"
    /\ data' = None
    /\ tmp_tile' = None
    /\ source' = "none"
    /\ pos' = 0
    /\ emitted' = <<>>
    /\ UNCHANGED wvars
    /\ UNCHANGED <<runs, args, gd, gen, tile_cache, handed, nproducts>>

NextCalls ==
    \/ GetTileGenerator
    \/ BeginProduct
    \/ GeneratorSkip
    \/ TileYield
    \/ TileSkipMasked
    \/ TileRaise
    \/ EndCall
    \/ EndScene
    \/ Abandon

SpecCalls == Init /\ [][NextCalls]_vars

\* ------------------------------------------------- the glue script
\* main of glue.py: frontend, remapper and backend are initialized, the
\* scene is extracted, and each forced grid is remapped and handed to the
\* backend.  A step fails when it raises a StandardError.
MaxGrids == 3
STATUS_SUCCESS == 0
STATUS_FRONTEND_FAIL == 1
STATUS_BACKEND_FAIL == 2
STATUS_REMAP_FAIL == 12

RECURSIVE BitOr(_, _)
\* the sum in place of the bitwise or
BitSum(a, b) == a + b
\* a | b for a, b >= 0
BitOr(a, b) ==
    IF a = 0 THEN b
    ELSE IF b = 0 THEN a
    ELSE (IF a % 2 = 1 \/ b % 2 = 1 THEN 1 ELSE 0) + 2 * BitOr(a \div 2, b \div 2)

\* return status: main is left with a status
GlueReturn(g, at, status) == [g EXCEPT !.pc = "returned", !.left_at = at, !.returned = <<status>>]

\* f = fcls(args.data_files, ...), and the return for --list-products
FrontendInit ==
    /\ glue # None /\ glue.pc = "frontend"
    /\ \E fails \in BOOLEAN :
         glue' = IF fails THEN GlueReturn(glue, "frontend", STATUS_FRONTEND_FAIL)
                 ELSE IF glue.list_products THEN GlueReturn(glue, "list", STATUS_SUCCESS)
                 ELSE [glue EXCEPT !.pc = "remapper"]
    /\ UNCHANGED <<args, gd, gen, tile_cache, data, tmp_tile, pc, source, pos, emitted,
                   handed, nproducts, runs, backend, files, output_filenames, attempts,
                   gridded_product, pkwargs, image_data, image_pixel, output_pattern>>

\* remapper = Remapper(...)
RemapperInit ==
    /\ glue # None /\ glue.pc = "remapper"
    /\ \E fails \in BOOLEAN :
         glue' = IF fails THEN GlueReturn(glue, "remapper", STATUS_REMAP_FAIL)
                 ELSE [glue EXCEPT !.pc = "backend"]
    /\ UNCHANGED <<args, gd, gen, tile_cache, data, tmp_tile, pc, source, pos, emitted,
                   handed, nproducts, runs, backend, files, output_filenames, attempts,
                   gridded_product, pkwargs, image_data, image_pixel, output_pattern>>

\* backend = bcls(...)
BackendInit ==
    /\ glue # None /\ glue.pc = "backend"
    /\ \E fails \in BOOLEAN :
         glue' = IF fails THEN GlueReturn(glue, "backend", STATUS_BACKEND_FAIL)
                 ELSE [glue EXCEPT !.pc = "scene"]
    /\ UNCHANGED <<args, gd, gen, tile_cache, data, tmp_tile, pc, source, pos, emitted,
                   handed, nproducts, runs, backend, files, output_filenames, attempts,
                   gridded_product, pkwargs, image_data, image_pixel, output_pattern>>

\* scene = f.create_scene(...)
CreateScene ==
    /\ glue # None /\ glue.pc = "scene"
    /\ \E fails \in BOOLEAN :
         glue' = IF fails THEN GlueReturn(glue, "scene", STATUS_FRONTEND_FAIL)
                 ELSE [glue EXCEPT !.pc = "loop"]
    /\ UNCHANGED <<args, gd, gen, tile_cache, data, tmp_tile, pc, source, pos, emitted,
                   handed, nproducts, runs, backend, files, output_filenames, attempts,
                   gridded_product, pkwargs, image_data, image_pixel, output_pattern>>

\* one pass of "for grid_name in forced_grids": remap_scene and, when that
\* did not fail, create_output_from_scene, each with its except clause
GridPass ==
    /\ glue # None /\ glue.pc = "loop"
    /\ Len(glue.outcomes) < glue.forced_grids
    /\ \E outcome \in {"ok", "remap failed", "backend failed"} :
         LET status == IF outcome = "remap failed"
                       THEN BitOr(glue.status_to_return, STATUS_REMAP_FAIL)
                       ELSE IF outcome = "backend failed"
                       THEN BitOr(glue.status_to_return, STATUS_BACKEND_FAIL)
                       ELSE glue.status_to_return
         IN glue' = [glue EXCEPT !.status_to_return = status,
                                 !.outcomes = Append(@, outcome),
                                 !.pc = IF outcome # "ok" /\ glue.exit_on_error
                                        THEN "raised" ELSE "loop"]
    /\ UNCHANGED <<args, gd, gen, tile_cache, data, tmp_tile, pc, source, pos, emitted,
                   handed, nproducts, runs, backend, files, output_filenames, attempts,
                   gridded_product, pkwargs, image_data, image_pixel, output_pattern>>

\* return status_to_return
GlueEnd ==
    /\ glue # None /\ glue.pc = "loop"
    /\ Len(glue.outcomes) = glue.forced_grids
    /\ glue' = GlueReturn(glue, "end", glue.status_to_return)
    /\ UNCHANGED <<args, gd, gen, tile_cache, data, tmp_tile, pc, source, pos, emitted,
                   handed, nproducts, runs, backend, files, output_filenames, attempts,
                   gridded_product, pkwargs, image_data, image_pixel, output_pattern>>

InitGlue ==
    /\ glue \in {[pc |-> "frontend", exit_on_error |-> e, list_products |-> l,
                  forced_grids |-> n, status_to_return |-> STATUS_SUCCESS,
                  outcomes |-> <<>>, left_at |-> "", returned |-> <<>>] :
                    e \in BOOLEAN, l \in BOOLEAN, n \in 0..MaxGrids}
    /\ args = None
    /\ gd = None
    /\ gen = None
    /\ tile_cache = <<>>
    /\ data = None
    /\ tmp_tile = None
    /\ pc = "start"
    /\ source = "none"
    /\ pos = 0
    /\ emitted = <<>>
    /\ handed = {}
    /\ nproducts = 0
    /\ runs = <<>>
    /\ backend = None
    /\ files = <<>>
    /\ output_filenames = <<>>
    /\ attempts = <<>>
    /\ gridded_product = None
    /\ pkwargs = None
    /\ image_data = None
    /\ image_pixel = None
    /\ output_pattern = None

NextGlue ==
    \/ FrontendInit
    \/ RemapperInit
    \/ BackendInit
    \/ CreateScene
    \/ GridPass
    \/ GlueEnd

SpecGlue == InitGlue /\ [][NextGlue]_vars

\* ================================================= properties
\* the Python indices a slice selects in an axis of length n
SliceIdx(sl, n) == {k \in 0..(n - 1) : k >= SliceStart(sl, n) /\ k < SliceStart(sl, n) + SliceLen(sl, n)}
\* the pixels of the product array in the data slice of a descriptor
SourcePixels(info) == SliceIdx(info.data_slices[1], gd.height) \X SliceIdx(info.data_slices[2], gd.width)
\* the pixels of the tile buffer in the tile slice of a descriptor
TilePixels(info) == SliceIdx(info.tile_slices[1], gen.tile_shape[1])
                        \X SliceIdx(info.tile_slices[2], gen.tile_shape[2])
\* a __call__ is running (or has just raised)
InCall == gen # None /\ gen.ok /\ data # None
\* ... and its iteration has come to its end, normally or by an error
CallOver == InCall /\ ((pc = "iter" /\ Exhausted) \/ pc = "raised")
Numbered == gen # None /\ gen.ok /\ gen.kind = "numbered"
Lettered == gen # None /\ gen.ok /\ gen.kind = "lettered"
HasValid(info) == \E p \in SourcePixels(info) : ~data[p]

\* C1: no tile a tile scheme emits has a source region (the data slice of its
\* descriptor) that is entirely masked, partial tiles included and whatever
\* tiles came before it in the call.
C1_NoMaskedTileEmitted ==
    InCall => \A k \in 1..Len(emitted) : HasValid(emitted[k].info)

\* C2: in every emitted tile, each pixel of the buffer outside the
\* descriptor's tile slice holds the fill value.
C2_RemainderIsFill ==
    InCall => \A k \in 1..Len(emitted) :
                \A p \in DOMAIN emitted[k].tile :
                    p \notin TilePixels(emitted[k].info) => emitted[k].tile[p].src = NaN

\* C3: a call of the numbered scheme emits every tile whose source region
\* has an unmasked pixel; for fully valid data it emits exactly
\* tile_count[0] * tile_count[1] tiles, in row-major order, each a buffer of
\* tile_shape pixels.
C3_ValidTilesEmitted ==
    (Numbered /\ CallOver) =>
        LET cells == Cells(gen)
            tc == gen.tile_count
        IN /\ \A c \in 1..Len(cells) :
                 HasValid(NumberedTileInfo(gen, cells[c][1], cells[c][2]))
                   => \E k \in 1..Len(emitted) :
                        /\ emitted[k].info.ty = cells[c][1]
                        /\ emitted[k].info.tx = cells[c][2]
           /\ (\A p \in DOMAIN data : ~data[p]) =>
                 /\ Len(emitted) = tc[1] * tc[2]
                 /\ \A k \in 1..Len(emitted) :
                      /\ emitted[k].info.ty = (k - 1) \div tc[2]
                      /\ emitted[k].info.tx = (k - 1) % tc[2]
                      /\ DOMAIN emitted[k].tile =
                           (0..(gen.tile_shape[1] - 1)) \X (0..(gen.tile_shape[2] - 1))

\* reading a decimal numeral
DigitValue(d) == CHOOSE v \in 0..9 : Digits[v + 1] = d
RECURSIVE ReadDecimal(_)
ReadDecimal(s) == IF s = <<>> THEN 0
                  ELSE 10 * ReadDecimal(SubSeq(s, 1, Len(s) - 1)) + DigitValue(s[Len(s)])

\* C4: the numbered tile at tile-row ty and tile-column tx is named "T" and
\* the 3-digit zero-padded number ty * tile_count[1] + tx + 1; in the order
\* of generation the numbers are 1, 2, 3, ... (distinct, contiguous from 1,
\* strictly increasing row-major), they end at tile_count[0] * tile_count[1],
\* which is total_tiles.
C4_NumberedIdentifiers ==
    Numbered =>
        LET tc == gen.tile_count
        IN /\ gen.total_tiles = tc[1] * tc[2]
           /\ Len(tile_cache) <= tc[1] * tc[2]
           /\ \A k \in 1..Len(tile_cache) :
                LET id == tile_cache[k].tile_id
                    ty == tile_cache[k].ty
                    tx == tile_cache[k].tx
                IN /\ ty \in 0..(tc[1] - 1) /\ tx \in 0..(tc[2] - 1)
                   /\ ty = (k - 1) \div tc[2] /\ tx = (k - 1) % tc[2]
                   /\ id[1] = "T" /\ Len(id) = 4
                   /\ ReadDecimal(Tail(id)) = ty * tc[2] + tx + 1
                   /\ ReadDecimal(Tail(id)) = k
\* C4's case: a scheme of 2 x 3 tiles has generated all its tiles, the last
\* of them T006
C4_Witness ==
    /\ Numbered /\ gen.tile_count = <<2, 3>>
    /\ Len(tile_cache) = 6
    /\ tile_cache[6].tile_id = <<"T", "0", "0", "6">>
    /\ tile_cache[4].tile_id = <<"T", "0", "0", "4">>


\* C5: two lettered generators over the same sector, cell size and sub-tile
\* count but grids of different, overlapping extents give every index
\* (row, col) of the lettered grid the same identifier and the same
\* left/right/top/bottom edges.
C5_SameBoundaries ==
    (runs # <<>> /\ gen # None /\ gen.ok) =>
        LET a == runs[1]
            b == gen
        IN /\ a.total_tile_count = b.total_tile_count
           /\ \A row \in 0..(a.total_tile_count[1] - 1), col \in 0..(a.total_tile_count[2] - 1) :
                /\ LetteredTileIdentifier(a.num_subtiles, a.total_tile_count, row, col)
                     = LetteredTileIdentifier(b.num_subtiles, b.total_tile_count, row, col)
                /\ TileBounds(a.ul_xy, a.tile_shape, a.cw, a.ch, row, col)
                     = TileBounds(b.ul_xy, b.tile_shape, b.cw, b.ch, row, col)

\* the extent of lettered tile (ty, tx): tile_shape pixels from the grid's
\* upper-left corner
TileLeft(tx) == gen.ul_xy[1] + tx * gen.tile_shape[2] * gen.cw
TileRight(tx) == TileLeft(tx) + gen.tile_shape[2] * gen.cw
TileTop(ty) == gen.ul_xy[2] - ty * gen.tile_shape[1] * gen.ch
TileBottom(ty) == TileTop(ty) - gen.tile_shape[1] * gen.ch
\* source columns / rows (Python indices) whose centre lies in the tile
ColsIn(tx) == {c \in 0..(gd.width - 1) : gen.x[c + 1] >= TileLeft(tx) /\ gen.x[c + 1] < TileRight(tx)}
RowsIn(ty) == {r \in 0..(gd.height - 1) : gen.y[r + 1] > TileBottom(ty) /\ gen.y[r + 1] <= TileTop(ty)}
\* the descriptors cached for a cell
CachedFor(ty, tx) == {k \in 1..Len(tile_cache) : tile_cache[k].ty = ty /\ tile_cache[k].tx = tx}

\* C6: the lettered generator skips a tile of its range exactly when no
\* source column or no source row falls within the tile: every tile with a
\* source column and a source row gets a descriptor, and each source pixel
\* whose centre lies in a tile of the range is in the data slice of exactly
\* one descriptor.
C6_SkipsOnlyEmptyTiles ==
    (Lettered /\ pc = "iter" /\ source = "generator" /\ Exhausted) =>
        LET cells == Cells(gen)
        IN /\ \A c \in 1..Len(cells) :
                (ColsIn(cells[c][2]) # {} /\ RowsIn(cells[c][1]) # {})
                    <=> CachedFor(cells[c][1], cells[c][2]) # {}
           /\ \A c \in 1..Len(cells) :
                \A p \in RowsIn(cells[c][1]) \X ColsIn(cells[c][2]) :
                    Cardinality({k \in 1..Len(tile_cache) : p \in SourcePixels(tile_cache[k])}) = 1

\* C7: the membership of a source coordinate in a lettered tile is
\* x in [x_left, x_right), y in (y_bot, y_top]: the data slice of a descriptor
\* holds only columns and rows of its own tile, so no source pixel (and, for
\* tiles of different tile-columns / tile-rows, no source column / row index)
\* lies in the data slices of two descriptors.
C7_TilesDisjoint ==
    Lettered =>
        \A i \in 1..Len(tile_cache) :
            LET a == tile_cache[i]
            IN /\ SliceIdx(a.data_slices[2], gd.width) \subseteq ColsIn(a.tx)
               /\ SliceIdx(a.data_slices[1], gd.height) \subseteq RowsIn(a.ty)
               /\ \A j \in 1..Len(tile_cache) :
                    LET b == tile_cache[j]
                    IN i # j =>
                        /\ <<a.ty, a.tx>> # <<b.ty, b.tx>>
                        /\ a.tx # b.tx => SliceIdx(a.data_slices[2], gd.width)
                                            \cap SliceIdx(b.data_slices[2], gd.width) = {}
                        /\ a.ty # b.ty => SliceIdx(a.data_slices[1], gd.height)
                                            \cap SliceIdx(b.data_slices[1], gd.height) = {}
                        /\ SourcePixels(a) \cap SourcePixels(b) = {}
\* C7's case: two descriptors of neighbouring tile-columns of one tile-row
\* whose data slices meet at the tile edge
C7_Witness ==
    /\ Lettered
    /\ \E i, j \in 1..Len(tile_cache) :
         /\ tile_cache[i].ty = tile_cache[j].ty
         /\ tile_cache[i].tx + 1 = tile_cache[j].tx
         /\ tile_cache[i].data_slices[2].stop = tile_cache[j].data_slices[2].start
         /\ gen.x[tile_cache[j].data_slices[2].start + 1] = TileLeft(tile_cache[j].tx) + gen.cw \div 2

\* C8: every descriptor of the lettered generator has a data slice and a tile
\* slice of equal, positive length on both axes; the tile slice lies within
\* [0, tile_shape[0]) x [0, tile_shape[1]) and the data slice within the data.
C8_SlicesFit ==
    Lettered =>
        \A k \in 1..Len(tile_cache) :
            \A ax \in 1..2 :
                LET t == tile_cache[k].tile_slices[ax]
                    d == tile_cache[k].data_slices[ax]
                    n == IF ax = 1 THEN gd.height ELSE gd.width
                IN /\ 0 <= t.start /\ t.start < t.stop /\ t.stop <= gen.tile_shape[ax]
                   /\ 0 <= d.start /\ d.start < d.stop /\ d.stop <= n
                   /\ t.stop - t.start = d.stop - d.start
\* C8's case: a descriptor of a tile the data covers only in part, its data
\* starting inside the tile, and which has been yielded
C8_Witness ==
    /\ Lettered
    /\ \E k \in 1..Len(emitted) :
         /\ emitted[k].info.tile_slices[2].start > 0
         /\ emitted[k].info.tile_slices[1].stop < gen.tile_shape[1]
         /\ emitted[k].info.data_slices[2].stop - emitted[k].info.data_slices[2].start >= 2

\* C9: for every tile written, on both axes, the stored index of the pixel
\* at column (row) k of the full image is k, a non-negative integer, and
\* k * scale + offset is the pixel-centre coordinate.
C9_IndicesReconstruct ==
    InCall =>
        \A k \in 1..Len(emitted) :
            LET info == emitted[k].info
            IN /\ \A j \in 1..Len(info.tmp_x) :
                    LET col == info.tile_column_offset + (j - 1)
                    IN /\ StoredIndex(info.tmp_x[j], gen.mx, gen.bx) = col
                       /\ Unpacked(col, gen.mx, gen.bx) = info.tmp_x[j]
               /\ \A i \in 1..Len(info.tmp_y) :
                    LET row == info.tile_row_offset + (i - 1)
                    IN /\ StoredIndex(info.tmp_y[i], gen.my, gen.by) = row
                       /\ Unpacked(row, gen.my, gen.by) = info.tmp_y[i]

\* C10: the scaling parameters handed to the tile writer are the same for
\* every tile of every product of a grid, and they are the generator's own:
\* generating tiles never changes them.
C10_ScalingConstant ==
    /\ \A h1, h2 \in handed : h1.grid_name = h2.grid_name => h1 = h2
    /\ (gen # None /\ gen.ok) =>
          \A h \in handed : /\ h.mx = gen.mx /\ h.bx = gen.bx
                            /\ h.my = gen.my /\ h.by = gen.by
                            /\ h.grid_name = gd.grid_name
\* C10's case: the second product of the grid, with two tiles of it written
C10_Witness ==
    /\ nproducts = 2 /\ InCall /\ source = "cache"
    /\ Len(emitted) >= 2
    /\ emitted[1].info.tx # emitted[2].info.tx
    /\ Cardinality(handed) = 1


\* the errors of _get_xy_arrays
SizeErrors == {"X variable too large for AWIPS-version of 16-bit integer space",
               "Y variable too large for AWIPS-version of 16-bit integer space"}
\* the image of the generator under construction: tile count x tile shape
\* (rows, columns)
VirtualImage ==
    IF args.lettered THEN gen.image_shape
    ELSE LET sc == NumberedShapeCount(gd.height, gd.width, args.tile_size, args.tile_count)
         IN <<sc.tile_shape[1] * sc.tile_count[1], sc.tile_shape[2] * sc.tile_count[2]>>

\* C11: constructing a tile scheme, numbered or lettered, fails with a size
\* error exactly when the virtual image (tile count x tile shape) has more
\* than 2**15 index values along X or along Y.
C11_SizeErrorIffTooLarge ==
    (pc # "start" /\ (args.lettered => gen.ok)) =>
        ((VirtualImage[1] > 32768 \/ VirtualImage[2] > 32768)
            <=> (~gen.ok /\ gen.err \in SizeErrors))

\* the cells of the sector's size that cover a sector: one letter each
AlphaCells(sector) ==
    CeilDiv(sector.ur_xy[1] - sector.ll_xy[1], sector.cell_size[2])
        * CeilDiv(sector.ur_xy[2] - sector.ll_xy[2], sector.cell_size[1])
TooManyLetters == "Too many lettered grid cells (sector cell size too small). Max 26"

\* C12: constructing a lettered generator for a sector that needs more than
\* 26 alpha cells raises the configuration error, before any descriptor is
\* generated and any tile handed to the writer; when construction succeeds
\* the alpha index of every tile of the lettered grid is in 0..25, every
\* descriptor's letter is one of the alphabet and no identifier lookup fails.
C12_AtMost26Letters ==
    (args.lettered /\ pc # "start") =>
        /\ (AlphaCells(args.sector) > 26) <=> (~gen.ok /\ gen.err = TooManyLetters)
        /\ ~gen.ok => (pc = "raised" /\ tile_cache = <<>> /\ emitted = <<>>
                        /\ handed = {} /\ nproducts = 0)
        /\ gen.ok =>
             /\ pc # "raised"
             /\ \A row \in 0..(gen.total_tile_count[1] - 1),
                   col \in 0..(gen.total_tile_count[2] - 1) :
                    LetteredAlphaNum(gen.num_subtiles, gen.total_tile_count, row, col) \in 0..25
             /\ \A k \in 1..Len(tile_cache) :
                    \E a \in 1..26 : tile_cache[k].tile_id[2] = AsciiUppercase[a]
\* C12's case: a sector of 27 alpha cells, its construction refused
C12_Witness ==
    /\ args.lettered /\ pc = "raised"
    /\ AlphaCells(args.sector) = 27
    /\ ~gen.ok /\ gen.err = TooManyLetters

NeitherGiven == "Either 'tile_count' or 'tile_shape' must be provided"
\* what the caller supplied to the numbered generator
ShapeGiven == args.tile_size # None
CountGiven == args.tile_count # None

\* C13: constructing a numbered generator fails with an error when neither
\* tile_shape nor tile_count is supplied and also when both are supplied.
C13_ExactlyOneRequired ==
    (~args.lettered /\ pc # "start") =>
        ((ShapeGiven <=> CountGiven) <=> ~gen.ok)

\* C13 (amended): constructing a numbered generator fails, and produces no
\* scheme, exactly when neither tile_shape nor tile_count is supplied; when
\* both are supplied it succeeds and the tile shape decides: the tile shape
\* is the supplied one clipped to the grid and the tile count is derived from
\* it, the supplied count being ignored.
C13_AtLeastOneRequired ==
    (~args.lettered /\ pc # "start") =>
        /\ (~ShapeGiven /\ ~CountGiven) <=> (~gen.ok /\ gen.err = NeitherGiven)
        /\ ~gen.ok => (pc = "raised" /\ tile_cache = <<>> /\ emitted = <<>> /\ handed = {})
        /\ (ShapeGiven /\ CountGiven) =>
             /\ gen.ok
             /\ gen.tile_shape = <<Min(args.tile_size[1], gd.height),
                                   Min(args.tile_size[2], gd.width)>>
             /\ gen.tile_count = <<CeilDiv(gd.height, gen.tile_shape[1]),
                                   CeilDiv(gd.width, gen.tile_shape[2])>>
        /\ (~ShapeGiven /\ CountGiven) => (gen.ok /\ gen.tile_count = args.tile_count)
\* C13's case: both supplied, the scheme built with a tile count other than
\* the supplied one
C13_Witness ==
    /\ ~args.lettered /\ pc = "ready"
    /\ ShapeGiven /\ CountGiven
    /\ gen.ok /\ gen.tile_count # args.tile_count

\* the first product of the grid has been iterated to its end
FirstProductDone == nproducts >= 2 \/ (nproducts = 1 /\ pc \in {"ready", "done"})
\* the positions in the cache of the descriptors yielded so far
CachePositions ==
    [k \in 1..Len(emitted) |-> {i \in 1..Len(tile_cache) : tile_cache[i] = emitted[k].info}]

\* C14: tile geometry is computed once per grid: one generator is built and
\* kept; once the first product has been iterated to its end the cache never
\* changes, and every later call takes its descriptors from the cache, in the
\* order of the cache: no pass of the generation loop is made again.
C14_GeometryComputedOnce ==
    /\ [][(gen # None => gen' = gen)
          /\ (FirstProductDone => tile_cache' = tile_cache)]_vars
    /\ []((InCall /\ nproducts >= 2) =>
            /\ pos > 0 => source = "cache"
            /\ pos <= Len(tile_cache)
            /\ \A k \in 1..Len(emitted) :
                 /\ Cardinality(CachePositions[k]) = 1
                 /\ CachePositions[k] \subseteq 1..pos
                 /\ \A j \in 1..(k - 1) :
                      \A a \in CachePositions[j], b \in CachePositions[k] : a < b)

\* C15: when writing a tile fails after its file was created,
\* create_tile_output removes the file before the error propagates, unless
\* keep_intermediate is set, in which case the file is left as far as it was
\* written; with keep_intermediate off no file of a failed attempt remains.
C15_FailedTileRemoved ==
    \A k \in 1..Len(attempts) :
        LET a == attempts[k]
        IN a.outcome = "failed" =>
             /\ ~backend.keep_intermediate => a.name \notin DOMAIN files
             /\ (backend.keep_intermediate /\ a.created) =>
                  /\ a.name \in DOMAIN files
                  /\ files[a.name] = FileOf(a.product, a.tile_id, "partial")
\* C15's case: with keep_intermediate off a tile failed after its file was
\* created, on a grid the writer supports, and a later tile was written
C15_Witness ==
    /\ backend # None /\ ~backend.keep_intermediate
    /\ gd.proj \in SupportedProjections
    /\ \E k \in 1..Len(attempts) :
         /\ attempts[k].outcome = "failed" /\ attempts[k].created
         /\ attempts[k].name \notin DOMAIN files
         /\ \E j \in (k + 1)..Len(attempts) : attempts[j].outcome = "written"

\* the names of the attempts that wrote their tile, in the order of the attempts
WrittenNames ==
    LET Written(a) == a.outcome = "written"
        w == SelectSeq(attempts, Written)
    IN [k \in 1..Len(w) |-> w[k].name]
\* the tiles attempted for the product being tiled, in order
AttemptedNow ==
    LET Now(a) == a.product = ProductAt(nproducts)
        w == SelectSeq(attempts, Now)
    IN [k \in 1..Len(w) |-> w[k].tile_id]

\* C16: with exit_on_error false a tile that fails is skipped: no error
\* leaves create_output_from_scene, every tile the scheme yields is attempted,
\* and the list returned holds exactly the names of the tiles written, in
\* order, each a complete file; with exit_on_error true the first failure
\* leaves create_output_from_scene and no later tile is attempted.
C16_ErrorPolicy ==
    backend # None =>
        /\ output_filenames = WrittenNames
        /\ \A k \in 1..Len(output_filenames) :
             /\ output_filenames[k] \in DOMAIN files
             /\ files[output_filenames[k]].state = "complete"
        /\ ~backend.exit_on_error =>
             /\ pc # "raised"
             /\ InCall => AttemptedNow = [k \in 1..Len(emitted) |-> emitted[k].info.tile_id]
        /\ backend.exit_on_error =>
             \A k \in 1..Len(attempts) :
                 attempts[k].outcome # "written" => (k = Len(attempts) /\ pc = "raised")
        /\ pc = "raised" =>
             /\ backend.exit_on_error
             /\ attempts # <<>> /\ attempts[Len(attempts)].outcome # "written"
\* C16's case: with exit_on_error false a tile failed, the next tile of the
\* product and a tile of the next product were written, and the list is returned
C16_Witness ==
    /\ backend # None /\ ~backend.exit_on_error
    /\ pc = "done"
    /\ Len(attempts) >= 3
    /\ attempts[1].outcome = "failed"
    /\ attempts[2].outcome = "written" /\ attempts[2].product = "p1"
    /\ attempts[3].outcome = "written" /\ attempts[3].product = "p2"
    /\ Len(output_filenames) = Len(attempts) - 1

\* the products whose tile loop in create_output_from_scene ended normally
ProductsCompleted ==
    {n \in 1..nproducts : n < nproducts \/ pc \in {"ready", "done"}}

\* C17: a product for which the tile scheme emits zero tiles is reported as
\* an error: its tile loop never ends normally without a tile having been
\* handed to create_tile_output.
C17_ZeroTilesReported ==
    \A n \in ProductsCompleted :
        \E k \in 1..Len(attempts) : attempts[k].product = ProductAt(n)

\* C18: when the file of a tile exists and overwrite_existing is false,
\* create_tile_output raises before it creates anything, and the file that
\* was there is still there with its old content afterwards, whatever
\* keep_intermediate is; nothing is written under that name.
C18_ExistingFileUntouched ==
    \A k \in 1..Len(attempts) :
        LET a == attempts[k]
        IN /\ a.outcome = "exists" =>
                /\ ~backend.overwrite_existing
                /\ ~a.created
                /\ a.name \in DOMAIN files
                /\ files[a.name] = FileOf("none", <<>>, "old")
           /\ (~backend.overwrite_existing /\ a.name \in DOMAIN files
                 /\ files[a.name].state = "old") => a.outcome = "exists"
\* C18's case: the failure cleanup would remove files (keep_intermediate is
\* false), the tile's file existed, and the call has gone on or ended
C18_Witness ==
    /\ backend # None /\ ~backend.overwrite_existing /\ ~backend.keep_intermediate
    /\ attempts # <<>> /\ attempts[1].outcome = "exists"
    /\ files[attempts[1].name].state = "old"
    /\ pc \in {"iter", "raised"}

\* C19: for a grid whose projection set_projection_attrs has no branch for,
\* create_output_from_scene never returns normally, and every file in the
\* output directory is one that was there before the call.
C19_UnsupportedProjectionFatal ==
    gd.proj \notin SupportedProjections =>
        /\ pc # "done"
        /\ \A n \in DOMAIN files : files[n].state = "old"

\* the bit depth the scaling works with, and whether the product asked for
\* fewer bits than the file's type holds
ScaleDepth == Min(gridded_product.bit_depth, FileBitDepth(gridded_product.dtype))
BelowNative == gridded_product.bit_depth < FileBitDepth(gridded_product.dtype)
\* a scale was computed for a product with a range: not for flag values,
\* not a factor of 0
Scaled ==
    /\ pkwargs # None
    /\ ~gridded_product.flag_meanings
    /\ pkwargs.factor.num # 0
\* the steps of factor between valid_min and valid_max
Steps ==
    ((gridded_product.valid_max - gridded_product.valid_min) * pkwargs.factor.den)
        \div pkwargs.factor.num
WholeSteps ==
    Steps * pkwargs.factor.num
        = (gridded_product.valid_max - gridded_product.valid_min) * pkwargs.factor.den

\* C20 as stated: the scale has 2^bitdepth - 2 steps when the bit depth is
\* below the native depth of the file's type and 2^bitdepth - 1 steps at
\* native depth, and the valid_max attribute is that number.
C20_FillWithheldBelowNative ==
    LET n == IF BelowNative THEN 2^ScaleDepth - 2 ELSE 2^ScaleDepth - 1
    IN /\ Scaled => (WholeSteps /\ Steps = n)
       /\ image_data # None => image_data.valid_max = n
\* C20 amended: the scale has 2^bitdepth - 1 steps when the bit depth is
\* below the native depth of the file's type and 2^bitdepth - 2 steps at
\* native depth (where the largest encoding is the fill value); the valid_max
\* attribute is that number and lies below the fill value.
C20_FillWithheldAtNative ==
    LET n == IF BelowNative THEN 2^ScaleDepth - 1 ELSE 2^ScaleDepth - 2
    IN /\ Scaled => (WholeSteps /\ Steps = n)
       /\ image_data # None =>
            /\ image_data.valid_max = n
            /\ image_data.valid_min = 0
            /\ pkwargs.fills[1] > image_data.valid_max
\* C20's case: a 16-bit product in the 16-bit file, scaled and its
\* attributes written
C20_Witness ==
    /\ image_data # None
    /\ Scaled
    /\ gridded_product.bit_depth = 16
    /\ Steps = 65534
    /\ image_data.valid_max = 65534
    /\ pkwargs.fills = <<65535>>

\* the position of a letter in the alphabet, from 0
LetterIndex(l) == CHOOSE a \in 0..25 : AsciiUppercase[a + 1] = l
\* the indices (ty, tx) of the total lettered grid
TotalGrid == (0..(gen.total_tile_count[1] - 1)) \X (0..(gen.total_tile_count[2] - 1))
IdOf(c) == LetteredTileIdentifier(gen.num_subtiles, gen.total_tile_count, c[1], c[2])

\* C21: the identifier of the lettered tile (ty, tx) is "T", the letter of
\* index floor(ty/subrows) * (total_cols/subcols) + floor(tx/subcols) and the
\* 2-digit number (ty mod subrows) * subcols + (tx mod subcols) + 1; over the
\* total lettered grid the identifiers are pairwise distinct and every letter
\* in use carries exactly the numbers 1..subrows*subcols (looked at between
\* two products: the generator never changes); every descriptor carries the
\* identifier of its index.
C21_LetteredIdentifiers ==
    Lettered =>
        LET st == gen.num_subtiles
            ttc == gen.total_tile_count
        IN /\ pc = "ready" =>
              /\ \A c \in TotalGrid :
                /\ Len(IdOf(c)) = 4 /\ IdOf(c)[1] = "T"
                /\ \E a \in 1..26 : IdOf(c)[2] = AsciiUppercase[a]
                /\ LetterIndex(IdOf(c)[2])
                     = (c[1] \div st[1]) * (ttc[2] \div st[2]) + (c[2] \div st[2])
                /\ ReadDecimal(SubSeq(IdOf(c), 3, 4))
                     = (c[1] % st[1]) * st[2] + (c[2] % st[2]) + 1
              /\ \A c, d \in TotalGrid : c # d => IdOf(c) # IdOf(d)
              /\ \A c \in TotalGrid :
                   {ReadDecimal(SubSeq(IdOf(d), 3, 4)) :
                       d \in {e \in TotalGrid : IdOf(e)[2] = IdOf(c)[2]}} = 1..(st[1] * st[2])
           /\ \A k \in 1..Len(tile_cache) :
                tile_cache[k].tile_id = IdOf(<<tile_cache[k].ty, tile_cache[k].tx>>)
\* C21's case: a lettered grid of 2 x 2 letters with 2 x 2 sub-tiles each, and
\* a descriptor of the second row of letters
C21_Witness ==
    /\ Lettered
    /\ gen.num_subtiles = <<2, 2>> /\ gen.total_tile_count = <<4, 4>>
    /\ \E k \in 1..Len(tile_cache) :
         /\ tile_cache[k].ty >= 2
         /\ tile_cache[k].tile_id[2] \in {"C", "D"}

\* the pixels of the image
ImagePixels == (0..(gd.height - 1)) \X (0..(gd.width - 1))
\* the tiles (ty, tx) of a numbered scheme
NumberedCells == (0..(gen.tile_count[1] - 1)) \X (0..(gen.tile_count[2] - 1))
\* rows [ty*tile_h, (ty+1)*tile_h) x columns [tx*tile_w, (tx+1)*tile_w) of the image
ClippedExtent(c) ==
    {p \in ImagePixels :
        /\ c[1] * gen.tile_shape[1] <= p[1] /\ p[1] < (c[1] + 1) * gen.tile_shape[1]
        /\ c[2] * gen.tile_shape[2] <= p[2] /\ p[2] < (c[2] + 1) * gen.tile_shape[2]}

\* C22: the data slice of numbered tile (ty, tx) selects the rows
\* [ty*tile_h, (ty+1)*tile_h) and columns [tx*tile_w, (tx+1)*tile_w) of the
\* image, clipped to it, and its offsets are ty*tile_h and tx*tile_w; the
\* extents of distinct tiles are disjoint and every pixel of the image lies
\* in exactly one of them (looked at between two products); the descriptors
\* generated are those of their tiles.
C22_NumberedExtents ==
    Numbered =>
        /\ pc = "ready" =>
             /\ \A c \in NumberedCells :
                  LET info == NumberedTileInfo(gen, c[1], c[2])
                  IN /\ SourcePixels(info) = ClippedExtent(c)
                     /\ info.tile_row_offset = c[1] * gen.tile_shape[1]
                     /\ info.tile_column_offset = c[2] * gen.tile_shape[2]
             /\ \A c, d \in NumberedCells :
                  c # d => SourcePixels(NumberedTileInfo(gen, c[1], c[2]))
                             \cap SourcePixels(NumberedTileInfo(gen, d[1], d[2])) = {}
             /\ \A p \in ImagePixels :
                  Cardinality({c \in NumberedCells :
                                 p \in SourcePixels(NumberedTileInfo(gen, c[1], c[2]))}) = 1
        /\ \A k \in 1..Len(tile_cache) :
             /\ <<tile_cache[k].ty, tile_cache[k].tx>> \in NumberedCells
             /\ SourcePixels(tile_cache[k]) = ClippedExtent(<<tile_cache[k].ty, tile_cache[k].tx>>)
\* C22's case: an image of 1 x 5 pixels in 1 x 3 tiles of 1 x 2 pixels, all
\* generated, the last tile clipped to one pixel
C22_Witness ==
    /\ Numbered /\ pc = "ready"
    /\ gd.height = 1 /\ gd.width = 5
    /\ gen.tile_count = <<1, 3>> /\ gen.tile_shape = <<1, 2>>
    /\ Len(tile_cache) = 3
    /\ SourcePixels(tile_cache[2]) = {<<0, 2>>, <<0, 3>>}
    /\ SourcePixels(tile_cache[3]) = {<<0, 4>>}

\* C23: in a numbered scheme, built from a tile shape or from a tile count,
\* the tile count is the ceiling of image size over tile shape and the tile
\* shape the ceiling of image size over tile count, on both axes; every tile
\* of the tile grid starts inside the image: its tile slice is [0,h) x [0,w)
\* with 1 <= h <= tile_h and 1 <= w <= tile_w, where h and w are the lengths
\* of its data slice clipped to the image.
C23_TilesStartInside ==
    (Numbered /\ pc = "ready") =>
        LET ts == gen.tile_shape
            tc == gen.tile_count
        IN /\ tc = <<CeilDiv(gd.height, ts[1]), CeilDiv(gd.width, ts[2])>>
           /\ CeilDiv(gd.height, tc[1]) <= ts[1] /\ CeilDiv(gd.width, tc[2]) <= ts[2]
           /\ \A c \in NumberedCells :
                LET info == NumberedTileInfo(gen, c[1], c[2])
                    h == SliceLen(info.data_slices[1], gd.height)
                    w == SliceLen(info.data_slices[2], gd.width)
                IN /\ c[1] * ts[1] < gd.height /\ c[2] * ts[2] < gd.width
                   /\ info.tile_slices = <<Slice(0, h), Slice(0, w)>>
                   /\ 1 <= h /\ h <= ts[1]
                   /\ 1 <= w /\ w <= ts[2]

\* the corners _get_tile_properties computes for the sector and grid at hand
Corners ==
    ShiftedCorners(args.sector.ll_xy, args.sector.ur_xy,
                   XArray(gd, gd.width), YArray(gd, gd.height),
                   Abs(gd.cell_width), Abs(gd.cell_height))
\* the left edge of the first pixel column and the upper edge of the first row
DataLeft == SeqMin(XArray(gd, gd.width)) - Abs(gd.cell_width) \div 2
DataTop == SeqMax(YArray(gd, gd.height)) + Abs(gd.cell_height) \div 2

BuildErrors == SizeErrors \cup {TooManyLetters, NeitherGiven, "Unknown sector"}
\* the arguments and grid at hand must make _get_tile_generator raise
MustRaise ==
    IF args.lettered
    THEN args.sector = None \/ AlphaCells(args.sector) > 26
    ELSE \/ (~ShapeGiven /\ ~CountGiven)
         \/ VirtualImage[1] > MaxIndexValues
         \/ VirtualImage[2] > MaxIndexValues

\* C25: an error of building the tile scheme (neither tile shape nor tile
\* count, image too large, more than 26 letters, unknown sector in lettered
\* mode) leaves create_output_from_scene whatever exit_on_error is: there is
\* an error and no scheme, no product is begun and no tile written; with
\* exit_on_error false nothing else leaves it.  In numbered mode an unknown
\* sector is no error: the scheme is built.
C25_BuildErrorsPropagate ==
    pc # "start" =>
        /\ MustRaise <=> ~gen.ok
        /\ ~gen.ok =>
             /\ DOMAIN gen = {"ok", "err"} /\ gen.err \in BuildErrors
             /\ pc = "raised"
             /\ nproducts = 0 /\ tile_cache = <<>> /\ emitted = <<>>
             /\ attempts = <<>> /\ files = <<>> /\ output_filenames = <<>>
        /\ (pc = "raised" /\ ~backend.exit_on_error) => ~gen.ok
        /\ (~args.lettered /\ args.sector = None /\ CountGiven
              /\ args.tile_count[2] <= MaxIndexValues) => gen.ok
\* C25's case: with exit_on_error false, a lettered grid for a sector the
\* configuration does not know: the error has left create_output_from_scene
C25_Witness ==
    /\ pc = "raised"
    /\ ~backend.exit_on_error
    /\ args.lettered /\ args.sector = None
    /\ ~gen.ok /\ gen.err = "Unknown sector"
    /\ attempts = <<>>

\* the distance of the decoded code from value v, and one step of the scale,
\* both in units of 1 / (factor.den * offset.den)
DecodeError(v, code) ==
    Abs(code * pkwargs.factor.num * pkwargs.offset.den
          + (pkwargs.offset.num - v * pkwargs.offset.den) * pkwargs.factor.den)
OneStep == pkwargs.factor.num * pkwargs.offset.den

\* C26: the code stored for a value v of [valid_min, valid_max] is one of
\* 0..valid_max code and not the fill code, and code * scale + offset lies
\* within one step of v; a masked pixel is stored as the fill code, the
\* largest value of the file's integer type.
C26_RoundTrip ==
    image_pixel # None =>
        /\ ~image_pixel.mask =>
             /\ image_pixel.code \in 0..image_data.valid_max
             /\ image_pixel.code # pkwargs.fills[1]
             /\ DecodeError(image_pixel.value, image_pixel.code) <= OneStep
        /\ image_pixel.mask =>
             /\ image_pixel.code = pkwargs.fills[1]
             /\ image_pixel.code = Uint16Values - 1

\* the passes of the generation loop of a freshly built scheme
FreshPasses == [k \in 1..Len(Cells(gen)) |-> GenerateTileInfo(gen, Cells(gen)[k])]
\* a first call on a freshly built scheme comes to its end
FreshCompletes ==
    \A k \in 1..Len(FreshPasses) :
        /\ FreshPasses[k].status # "raise"
        /\ FreshPasses[k].status = "info" =>
             CanSetItem(gen.tile_shape, FreshPasses[k].info.tile_slices, Shape,
                        FreshPasses[k].info.data_slices)
\* the tiles it emits for fully valid data
FreshTiles == {FreshPasses[k].info : k \in {i \in 1..Len(FreshPasses) :
                                               FreshPasses[i].status = "info"}}
FullyValid == \A p \in DOMAIN data : ~data[p]

\* C27: every call of a tile scheme considers every tile of the scheme: a
\* call with fully valid data that has come to its end, whatever calls were
\* made of the scheme before it and whether or not they were iterated to
\* the last tile, has emitted the tiles the first call of a freshly built
\* scheme emits, each once.
C27_EveryCallComplete ==
    (InCall /\ pc = "iter" /\ Exhausted /\ FullyValid /\ FreshCompletes) =>
        /\ {emitted[k].info : k \in 1..Len(emitted)} = FreshTiles
        /\ Len(emitted) = Cardinality(FreshTiles)

\* the distinct tiles the running call has emitted
DistinctTiles == {emitted[k].info.tile_id : k \in 1..Len(emitted)}

\* C28: every tile handed to the tile writer, by the numbered and by the
\* lettered scheme, lies inside the total image it is declared part of: its
\* row offset plus the tile height is at most product_rows, its column offset
\* plus the tile width at most product_columns (the scheme's image_shape);
\* and the distinct tiles emitted for a product are at most
\* number_product_tiles, the rows times the columns of tile_count.
C28_TilesInsideImage ==
    InCall =>
        /\ \A k \in 1..Len(emitted) :
             /\ emitted[k].info.tile_row_offset + gen.tile_shape[1] <= gen.image_shape[1]
             /\ emitted[k].info.tile_column_offset + gen.tile_shape[2] <= gen.image_shape[2]
        /\ Cardinality(DistinctTiles) <= gen.tile_count[1] * gen.tile_count[2]

\* the calls of create_tile_output that returned a filename, in their order
WrittenAttempts == SelectSeq(attempts, LAMBDA a : a.outcome = "written")

\* C29: when create_output_from_scene returns normally, every filename of
\* the returned list names a file that exists and holds the tile the name
\* was recorded for, and no filename is in the list twice: whatever the
\* output pattern, the overwrite_existing and keep_intermediate flags and
\* the tiles that failed and were skipped.
C29_ReturnedFilesExist ==
    (backend # None /\ pc = "done") =>
        /\ Len(output_filenames) = Len(WrittenAttempts)
        /\ \A k \in 1..Len(output_filenames) :
             /\ output_filenames[k] = WrittenAttempts[k].name
             /\ output_filenames[k] \in DOMAIN files
             /\ files[output_filenames[k]] =
                  FileOf(WrittenAttempts[k].product, WrittenAttempts[k].tile_id, "complete")
        /\ \A j, k \in 1..Len(output_filenames) :
             output_filenames[j] = output_filenames[k] => j = k

\* the grids of the run whose pass ended in outcome
GridsWith(outcome) == {k \in 1..Len(glue.outcomes) : glue.outcomes[k] = outcome}
\* main has returned with exit_on_error off
ReturnedIgnoringErrors == glue # None /\ glue.pc = "returned" /\ ~glue.exit_on_error

\* C30: with exit_on_error off, the status main returns after the grid loop
\* is the bitwise or of STATUS_REMAP_FAIL (12) for each grid whose remapping
\* failed and STATUS_BACKEND_FAIL (2) for each grid whose output creation
\* failed; every grid has had its pass, whatever failed before it; the
\* status is STATUS_SUCCESS exactly when no grid failed; and a failure of the
\* initialization of frontend, remapper or backend returns its own status
\* before any grid is remapped.
C30_StatusIsOrOfFailures ==
    ReturnedIgnoringErrors =>
        /\ glue.left_at = "end" =>
             /\ Len(glue.outcomes) = glue.forced_grids
             /\ glue.returned[1] =
                  (IF GridsWith("remap failed") # {} THEN 12 ELSE 0)
                    + (IF GridsWith("backend failed") # {} THEN 2 ELSE 0)
             /\ (glue.returned[1] = 0) <=> (GridsWith("ok") = 1..Len(glue.outcomes))
        /\ glue.left_at # "end" => glue.outcomes = <<>>
        /\ glue.left_at = "frontend" => glue.returned[1] = 1
        /\ glue.left_at = "remapper" => glue.returned[1] = 12
        /\ glue.left_at = "backend" => glue.returned[1] = 2
        /\ glue.returned[1] = 0 => glue.left_at \in {"end", "list"}
C30_Witness ==
    /\ ReturnedIgnoringErrors /\ glue.left_at = "end"
    /\ glue.outcomes = <<"remap failed", "backend failed", "remap failed">>
    /\ glue.returned = <<14>>

====
